---- MODULE Spec2Model ----
(***************************************************************************)
(* Polyphonic DSP host of faustwasm (src/src/FaustWebAudioDsp.ts):         *)
(* the voice pool with its allocation / stealing policy, the scheduled     *)
(* event queue and the event-sliced compute loop of FaustPolyWebAudioDsp.  *)
(*                                                                         *)
(* Time is counted in ticks, TicksPerSample ticks per sample, so that an   *)
(* event may fall between two samples and Math.round has work to do.       *)
(* Voice indices are 0-based as in the source.                             *)
(***************************************************************************)
EXTENDS Integers, Sequences, FiniteSets, TLC

\* ------------------------------------------------------------------ bounds
\* The largest polyphony, the callbacks issued, the calls of scheduleEvent,
\* the voice allocations made by host calls and the latest event time.
MaxVoices == 2
MaxFrames == 2
MaxEvents == 2
MaxKeyOns == 4
MaxTime == 5

\* The significand of a number, in bits: 53 in the program, whose numbers
\* are IEEE 754 doubles; the arithmetic below rounds as theirs does.
Precision == 7
MaxNotes == 2

\* The calls of createNode that are under way at once.
MaxCalls == 2

\* ------------------------------------------- configuration of the instance
\* fBufferSize in samples, the sample rate in ticks per sample and the
\* release budget getSampleRate() / 2 of a voice, in samples.
BufferSize == 2
TicksPerSample == 2
HalfRate == 1

\* --------------------------------------------------- program constants
kActiveVoice == 0
kFreeVoice == -1
kReleaseVoice == -2
kLegatoVoice == -3
kNoVoice == -4
MAX_VALUE == 1000000

gSampleSize == 4
gPtrSize == gSampleSize
NumInputs == 1
NumOutputs == 2
DspSize == 16
EffectSize == 8

Pitches == {60, 64, 67}
EventNotes == {60}
Paths == {"/synth/cutoff"}
ParamValues == {1}
EventTypes == {"NOTE_ON", "NOTE_OFF", "PARAMETER_CHANGE"}
Buffers == {"ok", "noInput", "noOutput"}

VARIABLES
    voices,        \* fInstance.voices: the configured polyphony
    hasEffect,     \* fInstance.effectAPI is set
    fVoiceTable,   \* voice index -> [fCurNote, fDate, fRelease, param]
    effectParam,   \* the effect instance's parameter
    scheduledEvents,
    outPtrTable,   \* HEAP32 entries at fAudioOutputs, one per output channel
    mixPtrTable,   \* HEAP32 entries at fAudioMixing, one per output channel
    fProcessing,
    fDestroyed,
    currentFrame,  \* callbacks the host has issued: processor.getCurrentTime()
    nScheduled,    \* history: the calls of scheduleEvent so far
    allocOrder,    \* history: voice indices, least recently allocated first
    last,          \* the last call: its name, its outcome, the calls it issued
    fOutputHandler,   \* an output handler is set (not null)
    fComputeHandler,  \* a compute handler is set (not null)
    fOutputsTimer,
    sincePush,     \* history: the polls of updateOutputs since its last push
    dspInputs,     \* mono instance: fInstance.api.getNumInputs(fDSP)
    HEAPF,         \* mono instance: the kernel's memory, offset -> value
    args,          \* the arguments of the static function or of the
                   \* constructor a specification of its own applies
    ret            \* what it has returned or built so far

vars == <<voices, hasEffect, fVoiceTable, effectParam, scheduledEvents,
          outPtrTable, mixPtrTable, fProcessing, fDestroyed, currentFrame,
          nScheduled, allocOrder, last, fOutputHandler, fComputeHandler,
          fOutputsTimer, sincePush, dspInputs, HEAPF, args, ret>>

VoiceIds == 0 .. (voices - 1)
Channels == 0 .. (NumOutputs - 1)

\* ------------------------------------------------------------ helpers
Min(S) == CHOOSE x \in S : \A y \in S : x <= y

\* Math.round: the nearest integer, a half rounding towards +Infinity
\* (num / den with den > 0).
Round(num, den) == (2 * num + den) \div (2 * den)

RECURSIVE SumSeq(_)
SumSeq(s) == IF s = <<>> THEN 0 ELSE Head(s) + SumSeq(Tail(s))

\* ------------------------------------------------------------- numbers
\* A number of the program where its rounding matters: mant * 2^exp with
\* |mant| < 2^Precision, mant odd or the number 0.
Zero == [mant |-> 0, exp |-> 0]

Abs(n) == IF n < 0 THEN -n ELSE n
Sign(n) == IF n < 0 THEN -1 ELSE 1

RECURSIVE Canon(_, _)
Canon(mant, exp) ==
    IF mant = 0 THEN Zero
    ELSE IF mant % 2 = 0 THEN Canon(mant \div 2, exp + 1)
    ELSE [mant |-> mant, exp |-> exp]

\* num / den (both positive) brought to Precision significant bits:
\* <<num, den, shift>> with 2^(Precision-1) <= num / den < 2^Precision.
RECURSIVE Scale(_, _, _)
Scale(num, den, shift) ==
    IF num >= den * 2^Precision THEN Scale(num, 2 * den, shift + 1)
    ELSE IF num < den * 2^(Precision - 1) THEN Scale(2 * num, den, shift - 1)
    ELSE <<num, den, shift>>

\* The integer nearest to num / den, a tie going to the even one.
TieEven(quot, rem, den) ==
    IF 2 * rem > den \/ (2 * rem = den /\ quot % 2 = 1) THEN quot + 1 ELSE quot

Nearest(num, den) == TieEven(num \div den, num % den, den)

Rounded(sign, scaled, exp) ==
    Canon(sign * Nearest(scaled[1], scaled[2]), scaled[3] + exp)

\* The number nearest to (num / den) * 2^exp, den > 0: what an operation
\* whose exact value this is returns, and the value of a decimal literal.
RoundRat(num, den, exp) ==
    IF num = 0 THEN Zero
    ELSE Rounded(Sign(num), Scale(Abs(num), den, 0), exp)

Num(n) == RoundRat(n, 1, 0)

Aligned(a, exp) == a.mant * 2^(a.exp - exp)
LowExp(a, b) == IF a.exp < b.exp THEN a.exp ELSE b.exp
AddAt(a, b, exp) == RoundRat(Aligned(a, exp) + Aligned(b, exp), 1, exp)
SubAt(a, b, exp) == RoundRat(Aligned(a, exp) - Aligned(b, exp), 1, exp)
LeqAt(a, b, exp) == Aligned(a, exp) <= Aligned(b, exp)

\* a + b, a - b, a * b, a / b (b not 0) and a <= b.
Add(a, b) == AddAt(a, b, LowExp(a, b))
Sub(a, b) == SubAt(a, b, LowExp(a, b))
Mul(a, b) == RoundRat(a.mant * b.mant, 1, a.exp + b.exp)
Div(a, b) == RoundRat(a.mant * Sign(b.mant), Abs(b.mant), a.exp - b.exp)
Leq(a, b) == LeqAt(a, b, LowExp(a, b))

\* FaustBaseWebAudioDsp.remap(v, mn0, mx0, mn1, mx1):
\* (v - mn0) / (mx0 - mn0) * (mx1 - mn1) + mn1, evaluated left to right.
remap(v, mn0, mx0, mn1, mx1) ==
    Add(Mul(Div(Sub(v, mn0), Sub(mx0, mn0)), Sub(mx1, mn1)), mn1)

\* ---------------------------------------------------------- memory layout
\* initMemory: the byte offsets of the poly layout.
fEffect == DspSize * voices
fAudioInputs == fEffect + (IF hasEffect THEN EffectSize ELSE 0)
fAudioOutputs == fAudioInputs + NumInputs * gPtrSize
fAudioMixing == fAudioOutputs + NumOutputs * gPtrSize
fAudioMixingHalf == fAudioMixing + NumOutputs * gPtrSize
AudioInputsStart == fAudioMixingHalf + NumOutputs * gPtrSize
AudioOutputsStart == AudioInputsStart + NumInputs * BufferSize * gSampleSize
AudioMixingStart == AudioOutputsStart + NumOutputs * BufferSize * gSampleSize

originalOutputBufferPointers ==
    [chan \in Channels |-> AudioOutputsStart + BufferSize * gSampleSize * chan]
originalMixingBufferPointers ==
    [chan \in Channels |-> AudioMixingStart + BufferSize * gSampleSize * chan]

\* ------------------------------------------------------------ voice pool
\* The control tree of the DSP, parsed by fUICallback: fPathTable, from the
\* address of a control to its index in the kernel, and fInputsItems, the
\* addresses of its input controls in the order the walk meets them.
fPathTable ==
    ("/synth/cutoff" :> 4) @@ ("/synth/gate" :> 8) @@ ("/synth/env/gate" :> 12)
    @@ ("/synth/level" :> 16) @@ ("/synth/peak" :> 20)

fInputsItems == <<"/synth/cutoff", "/synth/gate", "/synth/env/gate">>

\* item.endsWith(suffix), for the addresses of the control trees modelled.
Suffixed ==
    ("/gate" :> {"/synth/gate", "/synth/env/gate"})
    @@ ("/freq" :> {"/synth/freq"}) @@ ("/key" :> {"/synth/key"})
    @@ ("/gain" :> {"/synth/gain"}) @@ ("/vel" :> {"/synth/vel"})
    @@ ("/velocity" :> {"/synth/velocity"})

endsWith(item, suffix) == item \in Suffixed[suffix]

\* 2^(k/12) for k in 0 .. 11, in millionths.
Semitones ==
    <<1000000, 1059463, 1122462, 1189207, 1259921, 1334840,
      1414214, 1498307, 1587401, 1681793, 1781797, 1887749>>

\* midiToFreq(note): 440.0 * 2 ** ((note - 69) / 12), the power rounded and
\* then the product.
midiToFreq(note) ==
    Mul(Num(440),
        RoundRat(Semitones[((note - 69) % 12) + 1], 1000000, (note - 69) \div 12))

\* The labels and the two functions of a voice before extractPaths.
NoLabels ==
    [fGateLabel |-> {}, fFreqLabel |-> {}, fGainLabel |-> {},
     fKeyFun |-> "midiToFreq", fVelFun |-> "velocity / 127"]

\* extractPaths: one item of inputItems.
extractPath(l, item, pathTable) ==
    IF endsWith(item, "/gate")
    THEN [l EXCEPT !.fGateLabel = @ \cup {pathTable[item]}]
    ELSE IF endsWith(item, "/freq")
    THEN [l EXCEPT !.fKeyFun = "midiToFreq",
                   !.fFreqLabel = @ \cup {pathTable[item]}]
    ELSE IF endsWith(item, "/key")
    THEN [l EXCEPT !.fKeyFun = "pitch",
                   !.fFreqLabel = @ \cup {pathTable[item]}]
    ELSE IF endsWith(item, "/gain")
    THEN [l EXCEPT !.fVelFun = "velocity / 127",
                   !.fGainLabel = @ \cup {pathTable[item]}]
    ELSE IF endsWith(item, "/vel") /\ endsWith(item, "/velocity")
    THEN [l EXCEPT !.fVelFun = "velocity",
                   !.fGainLabel = @ \cup {pathTable[item]}]
    ELSE l

\* extractPaths(inputItems, pathTable), from item k on.
RECURSIVE extractPaths(_, _, _, _)
extractPaths(l, inputItems, pathTable, k) ==
    IF k > Len(inputItems) THEN l
    ELSE extractPaths(extractPath(l, inputItems[k], pathTable),
                      inputItems, pathTable, k + 1)

\* this.fKeyFun(pitch) and this.fVelFun(velocity) of the voice v.
fKeyFun(v, pitch) ==
    IF v.fKeyFun = "midiToFreq" THEN midiToFreq(pitch) ELSE Num(pitch)

fVelFun(v, velocity) ==
    IF v.fVelFun = "velocity / 127" THEN Div(Num(velocity), Num(127))
    ELSE Num(velocity)

\* The velocities of the host's keyOn calls.
Velocities == {100}

\* A voice with the labels l. fLevel is written by compute and read by it
\* in the same slice only: it is the quiet of RenderVoice below. param is the
\* kernel's value of the control of Paths, gate its value of every gate, key
\* and gain its values of the controls of fFreqLabel and fGainLabel. The
\* timestamps of the note's start and end, which no code reads, are left out.
Labelled(l) ==
    [fGateLabel |-> l.fGateLabel, fFreqLabel |-> l.fFreqLabel,
     fGainLabel |-> l.fGainLabel, fKeyFun |-> l.fKeyFun,
     fVelFun |-> l.fVelFun,
     fCurNote |-> kFreeVoice, fDate |-> 0, fRelease |-> 0, param |-> 0,
     gate |-> [index \in l.fGateLabel |-> 0],
     key |-> [index \in l.fFreqLabel |-> Zero],
     gain |-> [index \in l.fGainLabel |-> Zero],
     fNextNote |-> -1, fNextVel |-> -1]

\* new FaustWebAudioDspVoice($dsp, api, inputItems, pathTable, sampleRate).
FaustWebAudioDspVoice(inputItems, pathTable) ==
    Labelled(extractPaths(NoLabels, inputItems, pathTable, 1))

\* A new voice of the DSP above.
NewVoice == FaustWebAudioDspVoice(fInputsItems, fPathTable)

\* allocVoice without its fDate++.
allocVoiceNoBump(vt, voice, type) ==
    [vt EXCEPT ![voice].fCurNote = type]

\* allocVoice(voice, type) on the voice table vt.
allocVoice(vt, voice, type) ==
    [vt EXCEPT ![voice].fDate = @ + 1, ![voice].fCurNote = type]

\* getPlayingVoice(pitch): the scan from index voice on, acc holding
\* voicePlaying and oldestDatePlaying.
RECURSIVE playingScan(_, _, _, _)
playingScan(vt, pitch, voice, acc) ==
    IF voice >= voices THEN acc.voicePlaying
    ELSE playingScan(vt, pitch, voice + 1,
            IF vt[voice].fCurNote = pitch /\ vt[voice].fDate < acc.oldestDatePlaying
            THEN [voicePlaying |-> voice, oldestDatePlaying |-> vt[voice].fDate]
            ELSE acc)

\* The scan made to keep the bound voice of largest date.
getNewestPlayingVoice(vt, pitch) ==
    LET bound == {v \in VoiceIds : vt[v].fCurNote = pitch}
    IN  IF bound = {} THEN kNoVoice
        ELSE CHOOSE v \in bound : \A w \in bound : vt[w].fDate <= vt[v].fDate

getPlayingVoice(vt, pitch) ==
    playingScan(vt, pitch, 0,
                [voicePlaying |-> kNoVoice, oldestDatePlaying |-> MAX_VALUE])

\* getFreeVoice(), first loop: the first Free voice from index voice on.
RECURSIVE freeScanFrom(_, _)
freeScanFrom(vt, voice) ==
    IF voice >= voices THEN kNoVoice
    ELSE IF vt[voice].fCurNote = kFreeVoice THEN voice
    ELSE freeScanFrom(vt, voice + 1)

\* The first loop run from the last index down.
freeScanBackwards(vt) ==
    LET free == {v \in VoiceIds : vt[v].fCurNote = kFreeVoice}
    IN  IF free = {} THEN kNoVoice
        ELSE CHOOSE v \in free : \A w \in free : w <= v

freeScan(vt) == freeScanFrom(vt, 0)

\* A step of the second loop that does not tell Releasing voices apart.
stealStepNoPreference(vt, voice, acc) ==
    IF vt[voice].fDate < acc.oldestDateRelease
    THEN [acc EXCEPT !.oldestDateRelease = vt[voice].fDate, !.voiceRelease = voice]
    ELSE acc

\* getFreeVoice(), second loop: one step of the scan of all voices.
stealStep(vt, voice, acc) ==
    IF vt[voice].fCurNote = kReleaseVoice
    THEN IF vt[voice].fDate < acc.oldestDateRelease
         THEN [acc EXCEPT !.oldestDateRelease = vt[voice].fDate,
                          !.voiceRelease = voice]
         ELSE acc
    ELSE IF vt[voice].fDate < acc.oldestDatePlaying
         THEN [acc EXCEPT !.oldestDatePlaying = vt[voice].fDate,
                          !.voicePlaying = voice]
         ELSE acc

RECURSIVE stealScan(_, _, _)
stealScan(vt, voice, acc) ==
    IF voice >= voices THEN acc
    ELSE stealScan(vt, voice + 1, stealStep(vt, voice, acc))

\* getFreeVoice(), the returns: free is what the first loop found and acc
\* what the second loop kept. [vt, voice]: the voice table afterwards and
\* the index returned.
decideVoice(vt, free, acc) ==
    IF free # kNoVoice
    THEN [vt |-> allocVoice(vt, free, kActiveVoice), voice |-> free]
    ELSE IF acc.oldestDateRelease # MAX_VALUE
    THEN [vt |-> allocVoice(vt, acc.voiceRelease, kLegatoVoice),
          voice |-> acc.voiceRelease]
    ELSE IF acc.oldestDatePlaying # MAX_VALUE
    THEN [vt |-> allocVoice(vt, acc.voicePlaying, kLegatoVoice),
          voice |-> acc.voicePlaying]
    ELSE [vt |-> vt, voice |-> kNoVoice]

\* getFreeVoice().
getFreeVoice(vt) ==
    decideVoice(vt, freeScan(vt),
                stealScan(vt, 0, [voicePlaying |-> kNoVoice,
                                  oldestDatePlaying |-> MAX_VALUE,
                                  oldestDateRelease |-> MAX_VALUE,
                                  voiceRelease |-> kNoVoice]))

\* keyOn that writes the note at once whether legato or not.
voiceKeyOnAtOnce(v, pitch, velocity, legato) ==
    [v EXCEPT !.key = [index \in v.fFreqLabel |-> fKeyFun(v, pitch)],
              !.gate = [index \in v.fGateLabel |-> 1],
              !.gain = [index \in v.fGainLabel |-> fVelFun(v, velocity)],
              !.fCurNote = pitch]

\* FaustWebAudioDspVoice.keyOn(pitch, velocity, legato): a legato keyOn only
\* stores the pending note, which no code of compute reads; any other writes
\* the key, opens every gate, writes the gain and keeps the pitch.
voiceKeyOn(v, pitch, velocity, legato) ==
    IF legato
    THEN [v EXCEPT !.fNextNote = pitch, !.fNextVel = velocity]
    ELSE [v EXCEPT !.key = [index \in v.fFreqLabel |-> fKeyFun(v, pitch)],
                   !.gate = [index \in v.fGateLabel |-> 1],
                   !.gain = [index \in v.fGainLabel |-> fVelFun(v, velocity)],
                   !.fCurNote = pitch]

\* keyOff that closes the first gate only.
voiceKeyOffOneGate(v, hard) ==
    IF hard
    THEN [v EXCEPT !.gate[Min(v.fGateLabel)] = 0, !.fCurNote = kFreeVoice]
    ELSE [v EXCEPT !.gate[Min(v.fGateLabel)] = 0, !.fRelease = HalfRate,
                   !.fCurNote = kReleaseVoice]

\* FaustWebAudioDspVoice.keyOff(hard): every gate is closed, then the voice
\* is freed or left to its release; fRelease = getSampleRate() / 2.
voiceKeyOff(v, hard) ==
    IF hard
    THEN [v EXCEPT !.gate = [index \in v.fGateLabel |-> 0],
                   !.fCurNote = kFreeVoice]
    ELSE [v EXCEPT !.gate = [index \in v.fGateLabel |-> 0],
                   !.fRelease = HalfRate, !.fCurNote = kReleaseVoice]

\* FaustPolyWebAudioDsp.keyOn(channel, pitch, velocity): [vt, voice, threw].
\* With no voice at all getFreeVoice returns kNoVoice, fVoiceTable[-4] is
\* undefined and the call of its keyOn throws a TypeError.
keyOnVoice(got, pitch, velocity) ==
    IF got.voice = kNoVoice
    THEN [vt |-> got.vt, voice |-> kNoVoice, threw |-> TRUE]
    ELSE [vt |-> [got.vt EXCEPT ![got.voice] =
                    voiceKeyOn(@, pitch, velocity,
                               @.fCurNote = kLegatoVoice)],
          voice |-> got.voice,
          threw |-> FALSE]

polyKeyOn(vt, pitch, velocity) ==
    keyOnVoice(getFreeVoice(vt), pitch, velocity)

\* FaustPolyWebAudioDsp.keyOff(channel, pitch, velocity).
keyOffVoice(vt, voice) ==
    IF voice # kNoVoice
    THEN [vt EXCEPT ![voice] = voiceKeyOff(@, FALSE)]
    ELSE vt

polyKeyOff(vt, pitch) == keyOffVoice(vt, getPlayingVoice(vt, pitch))

\* FaustWebAudioDspVoice.setParamValue(index, value): the kernel's value at
\* index, which is one of the gates, of the keys, of the gains, or param.
voiceSetParamValue(v, index, value) ==
    IF index \in DOMAIN v.gate THEN [v EXCEPT !.gate[index] = value]
    ELSE IF index \in DOMAIN v.key THEN [v EXCEPT !.key[index] = value]
    ELSE IF index \in DOMAIN v.gain THEN [v EXCEPT !.gain[index] = value]
    ELSE [v EXCEPT !.param = value]

\* FaustWebAudioDspVoice.getParamValue(index).
voiceGetParamValue(v, index) ==
    IF index \in DOMAIN v.gate THEN v.gate[index]
    ELSE IF index \in DOMAIN v.key THEN v.key[index]
    ELSE IF index \in DOMAIN v.gain THEN v.gain[index]
    ELSE v.param

\* FaustPolyWebAudioDsp.getParamValue(path): a path of the effect's control
\* tree is read from the effect, any other from fVoiceTable[0].
polyGetParamValue(vt, ep, path) ==
    IF hasEffect /\ path = "/fx/level" THEN ep
    ELSE voiceGetParamValue(vt[0], fPathTable[path])

\* setParamValue that writes a voice path to the first voice only.
polySetParamValueFirstVoice(vt, ep, path, value) ==
    IF hasEffect /\ path = "/fx/level"
    THEN [effectParam |-> value, vt |-> vt]
    ELSE [effectParam |-> ep,
          vt |-> [v \in DOMAIN vt |->
                    IF v = 0
                    THEN voiceSetParamValue(vt[v], fPathTable[path], value)
                    ELSE vt[v]]]

\* FaustPolyWebAudioDsp.setParamValue(path, value): [effectParam, vt]. A path
\* of the effect's control tree goes to the effect, any other to every voice.
polySetParamValue(vt, ep, path, value) ==
    IF hasEffect /\ path = "/fx/level"
    THEN [effectParam |-> value, vt |-> vt]
    ELSE [effectParam |-> ep,
          vt |-> [v \in DOMAIN vt |->
                    voiceSetParamValue(vt[v], fPathTable[path], value)]]

\* The allocations made so far: every one of them added 1 to one fDate.
RECURSIVE AllocationsFrom(_, _)
AllocationsFrom(vt, voice) ==
    IF voice >= voices THEN 0
    ELSE vt[voice].fDate + AllocationsFrom(vt, voice + 1)

Allocations(vt) == AllocationsFrom(vt, 0)

\* The allocation history once voice has been (re)allocated.
Touch(order, voice) ==
    IF voice = kNoVoice THEN order
    ELSE Append(SelectSeq(order, LAMBDA w : w # voice), voice)

\* ----------------------------------------------------------- event queue
\* processor.getCurrentTime(), in ticks: the host clock moves on by one
\* buffer with every callback.
currentTime == currentFrame * BufferSize * TicksPerSample
endOfCurrentFrame == currentTime + BufferSize * TicksPerSample

\* Array.prototype.sort((a, b) => a.time - b.time): a stable sort, written
\* as the insertion of each element behind those that are not later.
InsertSorted(s, e) ==
    LET k == Cardinality({i \in 1 .. Len(s) : s[i].time <= e.time})
    IN  SubSeq(s, 1, k) \o <<e>> \o SubSeq(s, k + 1, Len(s))

RECURSIVE SortByTime(_)
SortByTime(s) ==
    IF s = <<>> THEN <<>>
    ELSE InsertSorted(SortByTime(SubSeq(s, 1, Len(s) - 1)), s[Len(s)])

\* scheduleEvent without its sort.
scheduleEventNoSort(queue, event) ==
    Append(queue, [type |-> event.type, time |-> event.time,
                   data |-> event.data, id |-> Len(queue)])

\* scheduleEvent(event): the queue afterwards. The event is stamped with the
\* length of the queue as its id, pushed, and the queue is sorted by time.
scheduleEvent(queue, event) ==
    SortByTime(Append(queue, [type |-> event.type, time |-> event.time,
                              data |-> event.data, id |-> Len(queue)]))

\* The enriched event: sampleOffset = Math.round((time - currentTime) * rate).
Enrich(event) ==
    [type |-> event.type, time |-> event.time, data |-> event.data,
     id |-> event.id, sampleOffset |-> Round(event.time - currentTime, TicksPerSample)]

\* getEventsInCurrentFrame(): [queue, events], what is left of the queue and
\* the events shifted off its front.
RECURSIVE drainLoop(_, _)
drainLoop(queue, events) ==
    IF queue # <<>> /\ Head(queue).time < endOfCurrentFrame
    THEN drainLoop(Tail(queue), Append(events, Enrich(Head(queue))))
    ELSE [queue |-> queue, events |-> events]

\* The drain that empties the queue, handing over the due events only.
getEventsInCurrentFrameClearing(queue) ==
    [queue |-> <<>>, events |-> drainLoop(queue, <<>>).events]

getEventsInCurrentFrame(queue) == drainLoop(queue, <<>>)

\* ---------------------------------------------------------- compute loop
\* The state the slice loop works on: the voice table, the effect's
\* parameter, the two pointer tables, the allocation history, the slices
\* rendered so far and whether an exception has ended the loop.
\* The pointer tables once shifted to sliceStart.
ShiftPointers(st, sliceStart) ==
    IF sliceStart > 0
    THEN [st EXCEPT
            !.out = [chan \in Channels |->
                originalOutputBufferPointers[chan] + sliceStart * gSampleSize],
            !.mix = [chan \in Channels |->
                originalMixingBufferPointers[chan] + sliceStart * gSampleSize]]
    ELSE st

\* The loop state after a keyOn that gave r, after a setParamValue that gave r.
AfterKeyOn(st, r) ==
    [st EXCEPT !.vt = r.vt, !.threw = r.threw, !.order = Touch(@, r.voice)]

AfterSetParamValue(st, r) ==
    [st EXCEPT !.vt = r.vt, !.effectParam = r.effectParam]

\* The event of a slice applied: keyOn, keyOff or setParamValue.
ApplyEvent(st, event) ==
    IF event.type = "NOTE_ON"
    THEN AfterKeyOn(st, polyKeyOn(st.vt, event.data.note, 1))
    ELSE IF event.type = "NOTE_OFF"
    THEN [st EXCEPT !.vt = polyKeyOff(st.vt, event.data.note)]
    ELSE AfterSetParamValue(st,
            polySetParamValue(st.vt, st.effectParam,
                              event.data.path, event.data.value))

\* RenderVoice that leaves fRelease as keyOff set it.
RenderVoiceNoCountdown(v, sliceLength, quiet) ==
    IF v.fCurNote = kReleaseVoice /\ quiet /\ v.fRelease < 0
    THEN [v EXCEPT !.fCurNote = kFreeVoice]
    ELSE v

\* RenderVoice that counts fRelease down for a releasing voice only.
RenderVoiceReleasingOnly(v, sliceLength, quiet) ==
    IF v.fCurNote = kReleaseVoice
    THEN LET w == [v EXCEPT !.fRelease = @ - sliceLength]
         IN  IF quiet /\ w.fRelease < 0
             THEN [w EXCEPT !.fCurNote = kFreeVoice]
             ELSE w
    ELSE v

\* RenderVoice that frees a quiet releasing voice as soon as its fRelease is
\* used up.
RenderVoiceAtBudget(v, sliceLength, quiet) ==
    IF v.fCurNote # kFreeVoice
    THEN [v EXCEPT !.fRelease = @ - sliceLength,
                   !.fCurNote = IF @ = kReleaseVoice /\ quiet
                                   /\ v.fRelease - sliceLength <= 0
                                THEN kFreeVoice ELSE @]
    ELSE v

\* The voice's run of a slice that binds a LegatoSteal voice to its pending
\* note, as a crossfading engine would once the old note has been faded.
RenderVoiceBindsPending(v, sliceLength, quiet) ==
    IF v.fCurNote = kLegatoVoice
    THEN [v EXCEPT !.fRelease = @ - sliceLength, !.fCurNote = v.fNextNote]
    ELSE IF v.fCurNote # kFreeVoice
    THEN [v EXCEPT !.fRelease = @ - sliceLength,
                   !.fCurNote = IF @ = kReleaseVoice /\ quiet
                                   /\ v.fRelease - sliceLength < 0
                                THEN kFreeVoice ELSE @]
    ELSE v

\* One voice over one slice: its kernel runs, mixCheckVoice measures its
\* level (quiet: below VOICE_STOP_LEVEL), fRelease goes down by the slice
\* length and a quiet releasing voice whose fRelease is negative is freed.
RenderVoice(v, sliceLength, quiet) ==
    IF v.fCurNote # kFreeVoice
    THEN LET w == [v EXCEPT !.fRelease = @ - sliceLength]
         IN  IF w.fCurNote = kReleaseVoice /\ quiet /\ w.fRelease < 0
             THEN [w EXCEPT !.fCurNote = kFreeVoice]
             ELSE w
    ELSE v

\* The forEach that runs every voice, the Free ones too.
RECURSIVE VoiceRunsAll(_, _, _)
VoiceRunsAll(vt, v, sliceLength) ==
    IF v \notin DOMAIN vt THEN <<>>
    ELSE <<<<"compute", v, sliceLength>>, <<"mixCheckVoice", v, sliceLength>>>>
         \o VoiceRunsAll(vt, v + 1, sliceLength)

\* The calls the forEach over fVoiceTable makes from voice v on: for each
\* voice that is not Free, voice.compute(sliceLength, ...) and then
\* mixerAPI.mixCheckVoice(sliceLength, ...).
RECURSIVE VoiceRuns(_, _, _)
VoiceRuns(vt, v, sliceLength) ==
    IF v \notin DOMAIN vt THEN <<>>
    ELSE (IF vt[v].fCurNote # kFreeVoice
          THEN <<<<"compute", v, sliceLength>>,
                 <<"mixCheckVoice", v, sliceLength>>>>
          ELSE <<>>)
         \o VoiceRuns(vt, v + 1, sliceLength)

\* The bounds of the slice of the event at eventIndex (1-based here), events
\* being the drained events; index Len(events) + 1 is the trailing null.
SliceStart(events, eventIndex) ==
    IF eventIndex > 1 THEN events[eventIndex - 1].sampleOffset ELSE 0

SliceEnd(events, eventIndex) ==
    IF eventIndex <= Len(events) THEN events[eventIndex].sampleOffset
    ELSE BufferSize

\* The record of a slice: the event applied before it, if any, the pointer
\* tables and the bounds it was rendered with, the voices whose kernel ran,
\* those of them the mixer measured below VOICE_STOP_LEVEL, the voice
\* table before and after the voices ran, and the calls of the kernels and
\* of the mixer (runs).
SliceRecord(st, event, sliceStart, sliceLength, quiet, rendered) ==
    [event |-> event, out |-> st.out, mix |-> st.mix,
     start |-> sliceStart, length |-> sliceLength,
     ran |-> {v \in DOMAIN st.vt : st.vt[v].fCurNote # kFreeVoice},
     below |-> {v \in DOMAIN st.vt : st.vt[v].fCurNote # kFreeVoice /\ quiet[v]},
     before |-> st.vt, after |-> rendered,
     runs |-> VoiceRuns(st.vt, 0, sliceLength)]

\* The voices run over the slice [sliceStart, sliceStart + sliceLength).
RenderSlice(st, event, sliceStart, sliceLength, quiet) ==
    [st EXCEPT
       !.vt = [v \in DOMAIN st.vt |-> RenderVoice(st.vt[v], sliceLength, quiet[v])],
       !.applied = @ \o event,
       !.calls = @ \o VoiceRuns(st.vt, 0, sliceLength),
       !.slices = Append(@,
          SliceRecord(st, event, sliceStart, sliceLength, quiet,
             [v \in DOMAIN st.vt |->
                RenderVoice(st.vt[v], sliceLength, quiet[v])]))]

\* The body of the loop once the pointers are shifted and the event, if any,
\* is applied: an exception thrown by the event ends it there.
AfterEvent(st, event, sliceStart, sliceLength, quiet) ==
    IF st.threw THEN st
    ELSE RenderSlice(st, event, sliceStart, sliceLength, quiet)

\* One iteration of the slice loop.
Slice(st, events, eventIndex, quiet) ==
    AfterEvent(
        IF eventIndex <= Len(events)
        THEN ApplyEvent(ShiftPointers(st, SliceStart(events, eventIndex)),
                        events[eventIndex])
        ELSE ShiftPointers(st, SliceStart(events, eventIndex)),
        IF eventIndex <= Len(events) THEN <<events[eventIndex]>> ELSE <<>>,
        SliceStart(events, eventIndex),
        SliceEnd(events, eventIndex) - SliceStart(events, eventIndex),
        quiet)

\* The slice loop from eventIndex on.
RECURSIVE SliceLoop(_, _, _, _)
SliceLoop(st, events, eventIndex, quiet) ==
    IF eventIndex > Len(events) + 1 \/ st.threw THEN st
    ELSE SliceLoop(Slice(st, events, eventIndex, quiet),
                   events, eventIndex + 1, quiet)

\* The record of a call: its name, its outcome and, for a compute that got
\* past its checks (processed), the events drained, the events applied, the
\* slices rendered and the calls of the effect kernel; for a MIDI call, its
\* arguments (data).
Outcome(op, result) ==
    [data |-> <<>>, applied |-> <<>>, calls |-> <<>>, slices |-> <<>>,
     op |-> op, result |-> result, processed |-> FALSE, drained |-> <<>>,
     effect |-> <<>>, handled |-> <<>>, copied |-> FALSE, read |-> 0,
     returned |-> 0]

\* The offsets of the kernel's memory the model follows (fDSP is 0 in a mono
\* instance).
fDSP == 0
Offsets == {fDSP} \cup {fDSP + fPathTable[address] : address \in DOMAIN fPathTable}

\* The control tree of the DSP: the addresses of its bargraphs, in the order
\* the walk of the tree meets them.
fOutputsItems == <<"/synth/level", "/synth/peak">>

\* updateOutputs(): whether it pushes the bargraphs to the output handler
\* and fOutputsTimer afterwards. handler: an output handler is set.
outputsPushed(timer, handler) ==
    Len(fOutputsItems) > 0 /\ handler /\ timer = 0

outputsTimerAfter(timer, handler) ==
    IF Len(fOutputsItems) > 0 /\ handler
    THEN IF timer = 0 THEN 5 ELSE timer - 1
    ELSE timer

\* The polls counted since the last push, -1 until the first push: a poll
\* is a call of updateOutputs with a bargraph registered and a handler set.
pollsAfter(polls, timer, handler) ==
    IF Len(fOutputsItems) > 0 /\ handler
    THEN IF timer = 0 THEN 0
         ELSE IF polls = -1 THEN -1 ELSE polls + 1
    ELSE polls

\* The calls of the handlers a compute that got past its checks makes: the
\* compute handler before the kernels run, the output handler once for each
\* bargraph when updateOutputs pushes.
HandlerCalls(computeHandler, pushed) ==
    (IF computeHandler THEN <<"fComputeHandler">> ELSE <<>>)
    \o (IF pushed THEN fOutputsItems ELSE <<>>)

\* The events that can be scheduled.
NoteData(note) == [note |-> note, value |-> 0, path |-> ""]
ParamData(path, value) == [note |-> 0, value |-> value, path |-> path]
EventData(type) ==
    IF type = "PARAMETER_CHANGE"
    THEN {ParamData(path, value) : path \in Paths, value \in ParamValues}
    ELSE {NoteData(note) : note \in EventNotes}

\* ---------------------------------------------------------------- actions
\* The instance as its constructor leaves it, for a polyphony, an effect,
\* the voice the constructor makes of the DSP's control tree and the value
\* the kernel gives its controls: 0, or Zero where roundings are followed.
ConstructedWith(n, effect, voice, zero) ==
    /\ voices = n
    /\ hasEffect = effect
    /\ fVoiceTable = [v \in 0 .. (n - 1) |-> voice]
    /\ effectParam = 0
    /\ scheduledEvents = <<>>
    /\ outPtrTable = originalOutputBufferPointers
    /\ mixPtrTable = originalMixingBufferPointers
    /\ fProcessing = FALSE
    /\ fDestroyed = FALSE
    /\ currentFrame = 0
    /\ nScheduled = 0
    /\ allocOrder = <<>>
    /\ last = Outcome("new", "none")
    /\ fOutputHandler = FALSE
    /\ fComputeHandler = FALSE
    /\ fOutputsTimer = 5
    /\ sincePush = -1
    /\ HEAPF = [offset \in Offsets |-> zero]

\* The instance of the DSP whose control tree gives fPathTable.
Constructed(n, effect) == ConstructedWith(n, effect, NewVoice, 0)

Init ==
    /\ \E n \in 0 .. MaxVoices, effect \in BOOLEAN : Constructed(n, effect)
    /\ dspInputs = NumInputs
    /\ args = <<>>
    /\ ret = {}

config == <<voices, hasEffect, dspInputs, args, ret>>
memory == <<outPtrTable, mixPtrTable>>
pool == <<fVoiceTable, effectParam, allocOrder>>
queue == <<scheduledEvents, nScheduled>>
handlers == <<fOutputHandler, fComputeHandler>>

\* start that also clears fDestroyed.
StartRevives ==
    /\ fProcessing' = TRUE
    /\ fDestroyed' = FALSE
    /\ last' = Outcome("start", "none")
    /\ UNCHANGED <<config, HEAPF, memory, pool, queue, currentFrame, handlers,
                   fOutputsTimer, sincePush>>

Start ==
    /\ fProcessing' = TRUE
    /\ last' = Outcome("start", "none")
    /\ UNCHANGED <<config, HEAPF, memory, pool, queue, fDestroyed, currentFrame,
                   handlers, fOutputsTimer, sincePush>>

Stop ==
    /\ fProcessing' = FALSE
    /\ last' = Outcome("stop", "none")
    /\ UNCHANGED <<config, HEAPF, memory, pool, queue, fDestroyed, currentFrame,
                   handlers, fOutputsTimer, sincePush>>

\* destroy(): the flag is set and the handlers are dropped.
Destroy ==
    /\ fDestroyed' = TRUE
    /\ fOutputHandler' = FALSE
    /\ fComputeHandler' = FALSE
    /\ last' = Outcome("destroy", "none")
    /\ UNCHANGED <<config, HEAPF, memory, pool, queue, fProcessing, currentFrame,
                   fOutputsTimer, sincePush>>

\* setOutputParamHandler(handler), set: handler is not null.
SetOutputParamHandler(set) ==
    /\ fOutputHandler' = set
    /\ last' = Outcome("setOutputParamHandler", "none")
    /\ UNCHANGED <<config, HEAPF, memory, pool, queue, fProcessing, fDestroyed,
                   currentFrame, fComputeHandler, fOutputsTimer, sincePush>>

\* setComputeHandler(handler), set: handler is not null.
SetComputeHandler(set) ==
    /\ fComputeHandler' = set
    /\ last' = Outcome("setComputeHandler", "none")
    /\ UNCHANGED <<config, HEAPF, memory, pool, queue, fProcessing, fDestroyed,
                   currentFrame, fOutputHandler, fOutputsTimer, sincePush>>

\* The state after a keyOn that gave r.
KeyOnDone(r) ==
    /\ fVoiceTable' = r.vt
    /\ allocOrder' = Touch(allocOrder, r.voice)
    /\ last' = Outcome("keyOn", IF r.threw THEN "threw" ELSE "none")

\* keyOn(channel, pitch, velocity) called by the host.
KeyOn(pitch, velocity) ==
    /\ Allocations(fVoiceTable) < MaxKeyOns
    /\ KeyOnDone(polyKeyOn(fVoiceTable, pitch, velocity))
    /\ UNCHANGED <<config, HEAPF, memory, queue, effectParam, fProcessing, fDestroyed,
                   currentFrame, handlers, fOutputsTimer, sincePush>>

\* keyOff(channel, pitch, velocity) called by the host.
KeyOff(pitch) ==
    /\ fVoiceTable' = polyKeyOff(fVoiceTable, pitch)
    /\ last' = Outcome("keyOff", "none")
    /\ UNCHANGED <<config, HEAPF, memory, queue, effectParam, allocOrder, fProcessing,
                   fDestroyed, currentFrame, handlers, fOutputsTimer, sincePush>>

\* allNotesOff(hard).
AllNotesOff(hard) ==
    /\ fVoiceTable' = [v \in VoiceIds |-> voiceKeyOff(fVoiceTable[v], hard)]
    /\ last' = Outcome("allNotesOff", "none")
    /\ UNCHANGED <<config, HEAPF, memory, queue, effectParam, allocOrder, fProcessing,
                   fDestroyed, currentFrame, handlers, fOutputsTimer, sincePush>>

\* scheduleEvent(event).
ScheduleEvent(time, type, data) ==
    /\ nScheduled < MaxEvents
    /\ nScheduled' = nScheduled + 1
    /\ scheduledEvents' = scheduleEvent(scheduledEvents,
            [type |-> type, time |-> time, data |-> data])
    /\ last' = Outcome("scheduleEvent", "none")
    /\ UNCHANGED <<config, HEAPF, memory, pool, fProcessing, fDestroyed, currentFrame,
                   handlers, fOutputsTimer, sincePush>>

\* The push of updateOutputs in a poly instance: getParamValue(item) reads
\* the bargraph from fVoiceTable[0], which is undefined when there is no
\* voice, and the read throws a TypeError.
pushThrows(pushed) == pushed /\ voices = 0

\* compute past the slice loop, st being the state the loop ended in: the
\* effect kernel is called, then the pointer tables are reset, then
\* updateOutputs runs and the output is copied to the host's arrays; an
\* exception thrown in the loop leaves the tables as the loop had them, and
\* pushed says whether updateOutputs pushes.
Sliced(st, events, pushed) ==
    /\ fVoiceTable' = st.vt
    /\ effectParam' = st.effectParam
    /\ allocOrder' = st.order
    /\ outPtrTable' = IF st.threw THEN st.out ELSE originalOutputBufferPointers
    /\ mixPtrTable' = IF st.threw THEN st.mix ELSE originalMixingBufferPointers
    /\ fOutputsTimer' = IF st.threw THEN fOutputsTimer
                        ELSE outputsTimerAfter(fOutputsTimer, fOutputHandler)
    /\ sincePush' = IF st.threw THEN sincePush
                    ELSE pollsAfter(sincePush, fOutputsTimer, fOutputHandler)
    /\ last' = [data |-> <<>>,
                applied |-> st.applied,
                calls |-> st.calls,
                slices |-> st.slices,
                op |-> "compute",
                result |-> IF st.threw \/ pushThrows(pushed)
                           THEN "threw" ELSE "true",
                processed |-> TRUE,
                drained |-> events,
                effect |-> IF hasEffect /\ ~st.threw
                           THEN <<[out |-> st.out, count |-> BufferSize]>>
                           ELSE <<>>,
                handled |-> HandlerCalls(fComputeHandler,
                               ~st.threw /\ pushed /\ ~pushThrows(pushed)),
                copied |-> ~st.threw /\ ~pushThrows(pushed),
                read |-> NumInputs,
                returned |-> 0]

\* compute past its checks, got being what getEventsInCurrentFrame returned:
\* mixerAPI.clearOutput has been called, then the events were drained.
Drained(got, quiet) ==
    /\ scheduledEvents' = got.queue
    /\ Sliced(SliceLoop([effectParam |-> effectParam, vt |-> fVoiceTable,
                         threw |-> FALSE, order |-> allocOrder,
                         out |-> outPtrTable, mix |-> mixPtrTable,
                         applied |-> <<>>,
                         calls |-> <<<<"clearOutput", BufferSize,
                                       NumOutputs>>>>,
                         slices |-> <<>>],
                        got.events, 1, quiet),
              got.events,
              outputsPushed(fOutputsTimer, fOutputHandler))

\* compute without the check of fProcessing.
ComputeWhileStopped(buffers, quiet) ==
    /\ currentFrame < MaxFrames
    /\ currentFrame' = currentFrame + 1
    /\ UNCHANGED <<config, HEAPF, fProcessing, fDestroyed, nScheduled, handlers>>
    /\ IF fDestroyed
       THEN /\ last' = Outcome("compute", "false")
            /\ UNCHANGED <<memory, pool, scheduledEvents, fOutputsTimer, sincePush>>
       ELSE IF \/ (NumInputs > 0 /\ buffers = "noInput")
               \/ (NumOutputs > 0 /\ buffers = "noOutput")
       THEN /\ last' = Outcome("compute", "true")
            /\ UNCHANGED <<memory, pool, scheduledEvents, fOutputsTimer, sincePush>>
       ELSE Drained(getEventsInCurrentFrame(scheduledEvents), quiet)

\* compute(input, output): one callback of the host. buffers says which of
\* the checks of the host's arrays fails, if any; quiet[v] says whether
\* mixCheckVoice measures voice v below VOICE_STOP_LEVEL in this callback.
Compute(buffers, quiet) ==
    /\ currentFrame < MaxFrames
    /\ currentFrame' = currentFrame + 1
    /\ UNCHANGED <<config, HEAPF, fProcessing, fDestroyed, nScheduled, handlers>>
    /\ IF fDestroyed
       THEN /\ last' = Outcome("compute", "false")
            /\ UNCHANGED <<memory, pool, scheduledEvents, fOutputsTimer, sincePush>>
       ELSE IF \/ ~fProcessing
               \/ (NumInputs > 0 /\ buffers = "noInput")
               \/ (NumOutputs > 0 /\ buffers = "noOutput")
       THEN /\ last' = Outcome("compute", "true")
            /\ UNCHANGED <<memory, pool, scheduledEvents, fOutputsTimer, sincePush>>
       ELSE Drained(getEventsInCurrentFrame(scheduledEvents), quiet)

HostKeyOn ==
    \E pitch \in Pitches, velocity \in Velocities : KeyOn(pitch, velocity)
HostKeyOff == \E pitch \in Pitches : KeyOff(pitch)
HostAllNotesOff == \E hard \in BOOLEAN : AllNotesOff(hard)
HostScheduleEvent ==
    \E time \in 0 .. MaxTime, type \in EventTypes :
      \E data \in EventData(type) : ScheduleEvent(time, type, data)
HostCompute ==
    \E buffers \in Buffers, quiet \in [VoiceIds -> BOOLEAN] :
      Compute(buffers, quiet)

\* ---------------------------------------------------- the mono instance
\* FaustMonoWebAudioDsp: start, stop, destroy and the handlers are those of
\* the base class above; it has no voice, no queue and no pointer to shift.
\* What the host may pass as compute's input or output: its arrays, nothing,
\* null, or an array that is empty or whose first channel is.
MonoArgs == {"ok", "undefined", "null", "empty"}
MonoPaths == {"/synth/cutoff", "/synth/none"}

\* !array || !array[0] || array[0].length === 0
absent(array) == array # "ok"

\* this.fPathTable[path]: undefined for an address that is not in the table.
undefined == -1
pathIndex(path) ==
    IF path \in DOMAIN fPathTable THEN fPathTable[path] ELSE undefined

\* The index as the kernel gets it: its parameter is an i32 and the call
\* converts undefined to 0.
ToInt32(index) == IF index = undefined THEN 0 ELSE index

\* fInstance.api.setParamValue(fDSP, index, value) and getParamValue(fDSP,
\* index) on the kernel's memory.
apiSetParamValue(heap, dsp, index, value) ==
    [heap EXCEPT ![dsp + ToInt32(index)] = value]

apiGetParamValue(heap, dsp, index) == heap[dsp + ToInt32(index)]

\* FaustMonoWebAudioDsp.setParamValue(path, value).
MonoSetParamValue(path, value) ==
    /\ HEAPF' = apiSetParamValue(HEAPF, fDSP, pathIndex(path), value)
    /\ last' = [Outcome("setParamValue", "none") EXCEPT
                  !.calls = <<[index |-> pathIndex(path), value |-> value]>>]
    /\ UNCHANGED <<config, memory, pool, queue, fProcessing, fDestroyed,
                   currentFrame, handlers, fOutputsTimer, sincePush>>

\* FaustMonoWebAudioDsp.getParamValue(path).
MonoGetParamValue(path) ==
    /\ last' = [Outcome("getParamValue", "none") EXCEPT
                  !.returned = apiGetParamValue(HEAPF, fDSP, pathIndex(path))]
    /\ UNCHANGED <<config, HEAPF, memory, pool, queue, fProcessing, fDestroyed,
                   currentFrame, handlers, fOutputsTimer, sincePush>>

\* The steps with the output copied to the host before updateOutputs.
MonoStepsCopyBeforePoll(channels, handler) ==
    [chan \in 1 .. channels |-> <<"dspInput.set", chan - 1, BufferSize>>]
    \o (IF handler THEN <<<<"fComputeHandler", BufferSize, 0>>>> ELSE <<>>)
    \o <<<<"api.compute", fDSP, BufferSize>>>>
    \o [chan \in 1 .. NumOutputs |-> <<"output.set", chan - 1, BufferSize>>]
    \o <<<<"updateOutputs", 0, 0>>>>

\* The steps of a mono compute past its checks, in the order of its
\* statements: the input channels copied, the compute handler called with
\* fBufferSize if there is one, the kernel run over fBufferSize samples,
\* updateOutputs, the output channels copied to the host.
MonoSteps(channels, handler) ==
    [chan \in 1 .. channels |-> <<"dspInput.set", chan - 1, BufferSize>>]
    \o (IF handler THEN <<<<"fComputeHandler", BufferSize, 0>>>> ELSE <<>>)
    \o <<<<"api.compute", fDSP, BufferSize>>>>
    \o <<<<"updateOutputs", 0, 0>>>>
    \o [chan \in 1 .. NumOutputs |-> <<"output.set", chan - 1, BufferSize>>]

\* compute past its checks and the copy of the input: the compute handler,
\* the kernel, updateOutputs, the copy of the output, return true.
MonoProcessed(channels) ==
    /\ fOutputsTimer' = outputsTimerAfter(fOutputsTimer, fOutputHandler)
    /\ sincePush' = pollsAfter(sincePush, fOutputsTimer, fOutputHandler)
    /\ last' = [Outcome("compute", "true") EXCEPT
                  !.processed = TRUE,
                  !.handled = HandlerCalls(fComputeHandler,
                                 outputsPushed(fOutputsTimer, fOutputHandler)),
                  !.copied = TRUE,
                  !.read = channels,
                  !.calls = MonoSteps(channels, fComputeHandler)]

\* FaustMonoWebAudioDsp.compute(input, output). Past the checks the input
\* is copied if (input !== undefined), over Math.min(getNumInputs(),
\* input.length) channels: input.length throws a TypeError when input is
\* null, which gets here only if the DSP has no input.
MonoCompute(input, output) ==
    /\ UNCHANGED <<config, HEAPF, memory, pool, queue, fProcessing, fDestroyed,
                   currentFrame, handlers>>
    /\ IF fDestroyed
       THEN /\ last' = Outcome("compute", "false")
            /\ UNCHANGED <<fOutputsTimer, sincePush>>
       ELSE IF \/ ~fProcessing
               \/ (dspInputs > 0 /\ absent(input))
               \/ (NumOutputs > 0 /\ absent(output))
       THEN /\ last' = Outcome("compute", "true")
            /\ UNCHANGED <<fOutputsTimer, sincePush>>
       ELSE IF input = "null"
       THEN /\ last' = [Outcome("compute", "threw") EXCEPT !.processed = TRUE]
            /\ UNCHANGED <<fOutputsTimer, sincePush>>
       ELSE MonoProcessed(IF input = "ok" THEN dspInputs ELSE 0)

HostMonoCompute ==
    \E input \in MonoArgs, output \in MonoArgs : MonoCompute(input, output)
HostMonoSetParamValue ==
    \E path \in MonoPaths, value \in ParamValues : MonoSetParamValue(path, value)
HostMonoGetParamValue == \E path \in MonoPaths : MonoGetParamValue(path)

HostSetOutputParamHandler == \E set \in BOOLEAN : SetOutputParamHandler(set)
HostSetComputeHandler == \E set \in BOOLEAN : SetComputeHandler(set)

Next ==
    \/ Start
    \/ Stop
    \/ Destroy
    \/ HostSetOutputParamHandler
    \/ HostSetComputeHandler
    \/ HostKeyOn
    \/ HostKeyOff
    \/ HostAllNotesOff
    \/ HostScheduleEvent
    \/ HostCompute

Spec == Init /\ [][Next]_vars

\* The voice pool driven by the host's note calls, no event being scheduled.
NextPool ==
    \/ Start
    \/ HostKeyOn
    \/ HostKeyOff
    \/ HostAllNotesOff
    \/ HostCompute

SpecPool == Init /\ [][NextPool]_vars

\* The event queue and the sliced compute loop, every note coming from a
\* scheduled event.
NextQueue ==
    \/ Start
    \/ Destroy
    \/ HostScheduleEvent
    \/ HostCompute

SpecQueue == Init /\ [][NextQueue]_vars

\* The life of an instance: started and stopped, a compute handler set and
\* dropped, events scheduled, callbacks before and after destroy.
NextLife ==
    \/ Start
    \/ Stop
    \/ Destroy
    \/ HostSetComputeHandler
    \/ HostScheduleEvent
    \/ HostCompute

SpecLife == Init /\ [][NextLife]_vars

\* The release of the voices of an instance whose callbacks keep coming with
\* the host's arrays and whose mixer measures every voice below
\* VOICE_STOP_LEVEL: notes from scheduled events, and the render thread
\* calling compute as long as the host's clock is followed.
QuietCompute == Compute("ok", [v \in VoiceIds |-> TRUE])

NextRelease ==
    \/ Start
    \/ HostScheduleEvent
    \/ QuietCompute

\* WF_vars(QuietCompute) written out: QuietCompute is enabled exactly while
\* a callback is still to come (currentFrame < MaxFrames), and the steps of
\* NextRelease that move currentFrame on are the QuietCompute steps.
FairCallbacks ==
    \/ []<>(currentFrame = MaxFrames)
    \/ []<><<currentFrame' = currentFrame + 1>>_currentFrame

SpecRelease == Init /\ [][NextRelease]_vars /\ FairCallbacks

\* setParamValue(path, value) and getParamValue(path) of a poly instance,
\* called by the host. The path is one of the voices' control tree, or of
\* the effect's if there is an effect; getParamValue reads fVoiceTable[0],
\* which is undefined when there is no voice, and then throws a TypeError.
PolySetParamValue(path, value) ==
    /\ path = "/fx/level" => hasEffect
    /\ \E r \in {polySetParamValue(fVoiceTable, effectParam, path, value)} :
          /\ fVoiceTable' = r.vt
          /\ effectParam' = r.effectParam
    /\ last' = [Outcome("setParamValue", "none") EXCEPT !.data = <<path, value>>]
    /\ UNCHANGED <<config, HEAPF, memory, queue, allocOrder, fProcessing,
                   fDestroyed, currentFrame, handlers, fOutputsTimer, sincePush>>

PolyGetParamValue(path) ==
    /\ path = "/fx/level" => hasEffect
    /\ last' = IF voices = 0 /\ path # "/fx/level"
               THEN [Outcome("getParamValue", "threw") EXCEPT !.data = <<path>>]
               ELSE [Outcome("getParamValue", "none") EXCEPT
                       !.data = <<path>>,
                       !.returned =
                          polyGetParamValue(fVoiceTable, effectParam, path)]
    /\ UNCHANGED <<config, HEAPF, memory, pool, queue, fProcessing, fDestroyed,
                   currentFrame, handlers, fOutputsTimer, sincePush>>

\* The paths and the values of the host's calls.
PolyPaths == {"/synth/cutoff", "/synth/gate", "/fx/level"}
PolyValues == {3, 5}

HostPolySetParamValue ==
    \E path \in PolyPaths, value \in PolyValues : PolySetParamValue(path, value)
HostPolyGetParamValue == \E path \in PolyPaths : PolyGetParamValue(path)

\* The parameters of a poly instance whose voices play notes.
NextParam ==
    \/ HostKeyOn
    \/ HostPolySetParamValue
    \/ HostPolyGetParamValue

SpecParam == Init /\ [][NextParam]_vars

\* A mono instance, as its constructor leaves it, and its public methods.
InitMono ==
    /\ Constructed(0, FALSE)
    /\ dspInputs \in 0 .. 1
    /\ args = <<>>
    /\ ret = {}

NextMono ==
    \/ Start
    \/ Stop
    \/ Destroy
    \/ HostSetOutputParamHandler
    \/ HostSetComputeHandler
    \/ HostMonoCompute
    \/ HostMonoSetParamValue
    \/ HostMonoGetParamValue

SpecMono == InitMono /\ [][NextMono]_vars

\* The static functions of the classes, applied to arguments the host may
\* give: what the actions below leave alone is the instance.
instance ==
    <<voices, hasEffect, dspInputs, HEAPF, memory, pool, queue, fProcessing,
      fDestroyed, currentFrame, handlers, fOutputsTimer, sincePush, last>>

\* The ranges [min, max] a control may declare, as the numbers its decimal
\* literals are read as, and the values of a MIDI controller.
Ranges ==
    {RoundRat(-1, 1, 0), Zero, RoundRat(1, 10, 0), RoundRat(1, 2, 0),
     Num(1), Num(20)}
MidiValues == {0, 1, 64, 126, 127}

\* remap(v, 0, 127, min, max) called for one more value of v.
Remap(v) ==
    /\ \A done \in ret : done[1] # v
    /\ ret' = ret \cup {<<v, remap(Num(v), Num(0), Num(127), args.min, args.max)>>}
    /\ UNCHANGED <<instance, args>>

HostRemap == \E v \in MidiValues : Remap(v)

InitRemap ==
    /\ Constructed(0, FALSE)
    /\ dspInputs = NumInputs
    /\ args \in [min : Ranges, max : Ranges]
    /\ ret = {}

NextRemap == HostRemap

SpecRemap == InitRemap /\ [][NextRemap]_vars

\* ------------------------------------------------------ setup: parseUI
\* A node of the control tree of a DSP's JSON. A group has items; a leaf has
\* an address, the index of its control in the kernel, a range and meta
\* data, of which the model keeps the words of the "midi" entries: "ctrl 7"
\* is <<"ctrl", 7>>, an entry with another key is <<>>.
GroupTypes == {"vgroup", "hgroup", "tgroup"}
OutputTypes == {"hbargraph", "vbargraph"}
InputTypes == {"vslider", "hslider", "button", "checkbox", "nentry"}

Group(type, items) ==
    [index |-> -1, type |-> type, address |-> "", min |-> Zero,
     max |-> Zero, items |-> items, meta |-> <<>>]

Control(type, address, index, min, max, meta) ==
    [index |-> index, type |-> type, address |-> address, min |-> min,
     max |-> max, items |-> <<>>, meta |-> meta]

Leaf(type, address, index) == Control(type, address, index, Zero, Zero, <<>>)

\* The registry as the base constructor leaves it.
EmptyRegistry ==
    [fPathTable |-> [address \in {} |-> 0], fInputsItems |-> <<>>,
     fOutputsItems |-> <<>>, fDescriptor |-> <<>>,
     fPitchwheelLabel |-> <<>>, fCtrlLabel |-> [ctrl \in 0 .. 127 |-> <<>>]]

Label(item) == [path |-> item.address, min |-> item.min, max |-> item.max]

\* One entry of item.meta: strMidi === "pitchwheel", or a match of
\* /^ctrl\s(\d+)/ whose number is the index in fCtrlLabel.
parseMeta(reg, item, midi) ==
    IF midi = <<>> THEN reg
    ELSE IF Len(midi) = 1 /\ midi[1] = "pitchwheel"
    THEN [reg EXCEPT !.fPitchwheelLabel = Append(@, Label(item))]
    ELSE IF Len(midi) >= 2 /\ midi[1] = "ctrl"
    THEN [reg EXCEPT !.fCtrlLabel[midi[2]] = Append(@, Label(item))]
    ELSE reg

RECURSIVE parseMetas(_, _, _)
parseMetas(reg, item, k) ==
    IF k > Len(item.meta) THEN reg
    ELSE parseMetas(parseMeta(reg, item, item.meta[k]), item, k + 1)

\* The callback that sends every leaf but a bargraph to the input list.
fUICallbackInputsOnly(reg, item) ==
    IF item.type \in OutputTypes \cup InputTypes
    THEN [reg EXCEPT
            !.fInputsItems = Append(@, item.address),
            !.fPathTable = (item.address :> item.index) @@ @]
    ELSE reg

\* fUICallback(item).
fUICallback(reg, item) ==
    IF item.type \in OutputTypes
    THEN [reg EXCEPT
            !.fOutputsItems = Append(@, item.address),
            !.fPathTable = (item.address :> item.index) @@ @]
    ELSE IF item.type \in InputTypes
    THEN parseMetas(
            [reg EXCEPT
               !.fInputsItems = Append(@, item.address),
               !.fPathTable = (item.address :> item.index) @@ @,
               !.fDescriptor = Append(@, item.address)],
            item, 1)
    ELSE reg

\* parseItem, parseItems, parseGroup and parseUI: the walk of the tree.
RECURSIVE parseItems(_, _, _)
parseItem(item, reg) ==
    IF item.type \in GroupTypes
    THEN parseItems(item.items, reg, 1)
    ELSE fUICallback(reg, item)

parseItems(items, reg, k) ==
    IF k > Len(items) THEN reg
    ELSE parseItems(items, parseItem(items[k], reg), k + 1)

parseGroup(group, reg) ==
    IF group.items # <<>> THEN parseItems(group.items, reg, 1) ELSE reg

RECURSIVE parseGroups(_, _, _)
parseGroups(ui, reg, k) ==
    IF k > Len(ui) THEN reg
    ELSE parseGroups(ui, parseGroup(ui[k], reg), k + 1)

parseUI(ui) == parseGroups(ui, EmptyRegistry, 1)

\* The control trees parsed: a top group of one or two entries, each a leaf,
\* or a group of up to two leaves; the addresses follow the places.
LeafTypes == OutputTypes \cup InputTypes

Entry(group, own, first, second, base) ==
    {Leaf(type, own, base) : type \in LeafTypes}
    \cup {Group(group, <<>>)}
    \cup {Group(group, <<Leaf(type, first, base)>>) : type \in LeafTypes}
    \cup {Group(group, <<Leaf(t1, first, base), Leaf(t2, second, base + 4)>>) :
             t1 \in LeafTypes, t2 \in LeafTypes}

FirstEntry == Entry("hgroup", "/synth/a", "/synth/g/a", "/synth/g/b", 0)
SecondEntry == Entry("tgroup", "/synth/b", "/synth/h/a", "/synth/h/b", 8)

Trees ==
    {<<Group("vgroup", <<x>>)>> : x \in FirstEntry}
    \cup {<<Group("vgroup", <<x, y>>)>> : x \in FirstEntry, y \in SecondEntry}

\* parseUI(fJSONDsp.ui, fUICallback), called by a constructor.
ParseUI ==
    /\ ret = {}
    /\ ret' = {parseUI(args.ui)}
    /\ UNCHANGED <<instance, args>>

InitParse ==
    /\ Constructed(0, FALSE)
    /\ dspInputs = NumInputs
    /\ args \in [ui : Trees]
    /\ ret = {}

NextParse == ParseUI

SpecParse == InitParse /\ [][NextParse]_vars

\* ------------------------------------------------- setup: the voices
\* The control trees of the DSPs a poly instance is made of: the controls of
\* fPathTable, and after them the controls of keys and those of gains.
KeyControls ==
    {<<>>, <<"/synth/freq">>, <<"/synth/key">>,
     <<"/synth/freq", "/synth/key">>, <<"/synth/key", "/synth/freq">>}
GainControls == {<<>>, <<"/synth/gain">>, <<"/synth/vel">>, <<"/synth/velocity">>}

Sliders(addresses, base) ==
    [i \in 1 .. Len(addresses) |-> Leaf("hslider", addresses[i], base + 4 * i)]

SynthUI(keys, gains) ==
    <<Group("vgroup",
            <<Leaf("hslider", "/synth/cutoff", 4),
              Leaf("button", "/synth/gate", 8),
              Group("hgroup", <<Leaf("button", "/synth/env/gate", 12)>>),
              Leaf("hbargraph", "/synth/level", 16),
              Leaf("vbargraph", "/synth/peak", 20)>>
            \o Sliders(keys, 20) \o Sliders(gains, 28))>>

SynthUIs == {SynthUI(keys, gains) : keys \in KeyControls, gains \in GainControls}

\* new FaustWebAudioDspVoice(..., this.fInputsItems, this.fPathTable, ...)
\* in the poly constructor, after parseUI.
VoiceOf(reg) == FaustWebAudioDspVoice(reg.fInputsItems, reg.fPathTable)

\* keyOn(channel, pitch, velocity) called by the host.
NoteVelocities == {1, 64, 127}
HostNoteKeyOn ==
    \E pitch \in Pitches, velocity \in NoteVelocities : KeyOn(pitch, velocity)

InitVoice ==
    /\ args \in [ui : SynthUIs]
    /\ \E n \in 1 .. MaxVoices :
          ConstructedWith(n, FALSE, VoiceOf(parseUI(args.ui)), 0)
    /\ dspInputs = NumInputs
    /\ ret = {}

NextVoice ==
    \/ HostNoteKeyOn
    \/ HostKeyOff

SpecVoice == InitVoice /\ [][NextVoice]_vars

\* ------------------------------------------------------------------ MIDI
\* The control tree of the DSP of fPathTable with ranges and meta data: a
\* "style" entry has no midi key.
Style == <<>>
Pitchwheel == <<"pitchwheel">>
Ctrl(n) == <<"ctrl", n>>

CutoffMeta == {<<Style, Ctrl(7)>>, <<Pitchwheel>>}
GateMeta == {<<>>, <<Ctrl(7)>>}
EnvGateMeta == {<<Ctrl(123)>>}

MidiUI(cutoff, gate, envGate) ==
    <<Group("vgroup",
            <<Control("hslider", "/synth/cutoff", 4,
                      Num(-1), RoundRat(1, 10, 0), cutoff),
              Control("button", "/synth/gate", 8, Num(0), Num(1), gate),
              Group("hgroup",
                    <<Control("nentry", "/synth/env/gate", 12,
                              Num(0), Num(20), envGate)>>),
              Leaf("hbargraph", "/synth/level", 16),
              Leaf("vbargraph", "/synth/peak", 20)>>)>>

MidiUIs ==
    {MidiUI(cutoff, gate, envGate) :
       cutoff \in CutoffMeta, gate \in GateMeta, envGate \in EnvGateMeta}

\* The registry of the instance: what parseUI made of its control tree.
Registry == CHOOSE reg \in ret : TRUE

\* The instance while a MIDI method runs: the kernel's memory of a mono
\* instance, the voices of a poly one, the output handler's calls, the
\* methods the message was dispatched to.
Running ==
    [effectParam |-> effectParam, vt |-> fVoiceTable, threw |-> FALSE,
     order |-> allocOrder, calls |-> <<>>, handled |-> <<>>, heap |-> HEAPF]

\* this.setParamValue(path, value): the mono or the poly one.
thisSetParamValue(st, path, value) ==
    IF args.poly
    THEN AfterSetParamValue(st,
            polySetParamValue(st.vt, st.effectParam, path, value))
    ELSE [st EXCEPT !.heap = apiSetParamValue(@, fDSP, pathIndex(path), value)]

\* if (this.fOutputHandler) this.fOutputHandler(path,
\* this.getParamValue(path)): the poly getParamValue reads fVoiceTable[0]
\* and throws a TypeError when there is no voice.
outputHandled(st, path) ==
    IF ~fOutputHandler THEN st
    ELSE IF args.poly /\ voices = 0 THEN [st EXCEPT !.threw = TRUE]
    ELSE [st EXCEPT !.handled = Append(@, path)]

\* The body of the forEach of ctrlChange and of pitchWheel, for one binding
\* and a value of 0 .. mx0.
bound(st, label, v, mx0) ==
    outputHandled(
        thisSetParamValue(st, label.path,
            remap(Num(v), Num(0), Num(mx0), label.min, label.max)),
        label.path)

RECURSIVE forEachLabel(_, _, _, _, _)
forEachLabel(st, labels, v, mx0, k) ==
    IF k > Len(labels) \/ st.threw THEN st
    ELSE forEachLabel(bound(st, labels[k], v, mx0), labels, v, mx0, k + 1)

\* ctrlChange that sets the first control bound to ctrl only.
ctrlChangeFirstOnly(st, ctrl, value) ==
    IF Len(Registry.fCtrlLabel[ctrl]) > 0
    THEN bound(st, Registry.fCtrlLabel[ctrl][1], value, 127)
    ELSE st

\* FaustBaseWebAudioDsp.ctrlChange(channel, ctrl, value).
ctrlChange(st, ctrl, value) ==
    IF Len(Registry.fCtrlLabel[ctrl]) > 0
    THEN forEachLabel(st, Registry.fCtrlLabel[ctrl], value, 127, 1)
    ELSE st

\* FaustBaseWebAudioDsp.pitchWheel(channel, wheel).
pitchWheel(st, wheel) ==
    forEachLabel(st, Registry.fPitchwheelLabel, wheel, 16383, 1)

\* ctrlChange whose controllers 123 and 120 are allNotesOff(false).
polyCtrlChangeSoft(st, ctrl, value) ==
    IF ctrl = 123 \/ ctrl = 120
    THEN [st EXCEPT !.vt = [v \in DOMAIN @ |-> voiceKeyOff(@[v], FALSE)]]
    ELSE ctrlChange(st, ctrl, value)

\* FaustPolyWebAudioDsp.ctrlChange(channel, ctrl, value): controllers 123
\* and 120 are allNotesOff(true), any other is the base's.
polyCtrlChange(st, ctrl, value) ==
    IF ctrl = 123 \/ ctrl = 120
    THEN [st EXCEPT !.vt = [v \in DOMAIN @ |-> voiceKeyOff(@[v], TRUE)]]
    ELSE ctrlChange(st, ctrl, value)

\* this.ctrlChange(channel, ctrl, value).
thisCtrlChange(st, ctrl, value) ==
    IF args.poly THEN polyCtrlChange(st, ctrl, value)
    ELSE ctrlChange(st, ctrl, value)

Called(st, method, a, b) == [st EXCEPT !.calls = Append(@, <<method, a, b>>)]

\* midiMessage that takes the whole status byte for the command.
midiMessageWholeStatus(st, data) ==
    IF data[1] = 11
    THEN thisCtrlChange(Called(st, "ctrlChange", data[2], data[3]),
                        data[2], data[3])
    ELSE IF data[1] = 14
    THEN pitchWheel(Called(st, "pitchWheel", data[3] * 128 + data[2], 0),
                    data[3] * 128 + data[2])
    ELSE st

\* FaustBaseWebAudioDsp.midiMessage(data): cmd = data[0] >> 4, data counted
\* from 1 here.
midiMessage(st, data) ==
    IF data[1] \div 16 = 11
    THEN thisCtrlChange(Called(st, "ctrlChange", data[2], data[3]),
                        data[2], data[3])
    ELSE IF data[1] \div 16 = 14
    THEN pitchWheel(Called(st, "pitchWheel", data[3] * 128 + data[2], 0),
                    data[3] * 128 + data[2])
    ELSE st

\* FaustPolyWebAudioDsp.midiMessage(data, timestamp).
polyMidiMessage(st, data) ==
    IF data[1] \div 16 = 8 \/ (data[1] \div 16 = 9 /\ data[3] = 0)
    THEN [Called(st, "keyOff", data[2], data[3]) EXCEPT
            !.vt = polyKeyOff(@, data[2])]
    ELSE IF data[1] \div 16 = 9
    THEN AfterKeyOn(Called(st, "keyOn", data[2], data[3]),
                    polyKeyOn(st.vt, data[2], data[3]))
    ELSE midiMessage(Called(st, "super.midiMessage", 0, 0), data)

\* The state a MIDI method leaves.
Ran(op, data, st) ==
    /\ last' = [Outcome(op, IF st.threw THEN "threw" ELSE "none") EXCEPT
                  !.handled = st.handled, !.calls = st.calls, !.data = data]
    /\ HEAPF' = st.heap
    /\ fVoiceTable' = st.vt
    /\ effectParam' = st.effectParam
    /\ allocOrder' = st.order
    /\ UNCHANGED <<config, memory, queue, fProcessing, fDestroyed,
                   currentFrame, handlers, fOutputsTimer, sincePush>>

\* midiMessage(data) called by the host on a mono or a poly instance.
MidiMessage(data) ==
    /\ (args.poly /\ data[1] \div 16 = 9 /\ data[3] # 0)
          => Allocations(fVoiceTable) < MaxNotes
    /\ \E st \in {IF args.poly THEN polyMidiMessage(Running, data)
                  ELSE midiMessage(Running, data)} :
          Ran("midiMessage", data, st)

\* ctrlChange(channel, ctrl, value) and pitchWheel(channel, wheel) called
\* by the host.
CtrlChange(ctrl, value) ==
    \E st \in {thisCtrlChange(Running, ctrl, value)} :
       Ran("ctrlChange", <<ctrl, value>>, st)

PitchWheel(wheel) ==
    \E st \in {pitchWheel(Running, wheel)} : Ran("pitchWheel", <<wheel>>, st)

\* The bytes of the messages and the arguments of the calls.
Messages ==
    {<<128, 60, 0>>, <<147, 60, 64>>, <<147, 60, 0>>, <<179, 7, 0>>,
     <<179, 7, 64>>, <<179, 123, 64>>, <<224, 0, 0>>, <<224, 127, 127>>,
     <<240, 7, 64>>}
Data2 == {0, 64}
Controllers == {1, 7, 123}
Wheels == {0, 16383}

HostMidiMessage ==
    \E data \in Messages : MidiMessage(data)
HostCtrlChange ==
    \E ctrl \in Controllers, value \in Data2 : CtrlChange(ctrl, value)
HostPitchWheel == \E wheel \in Wheels : PitchWheel(wheel)

\* A mono or a poly instance of a DSP of MidiUIs, its kernels' controls at 0.
InitMidi ==
    /\ args \in [poly : BOOLEAN, ui : MidiUIs]
    /\ \E n \in 0 .. 1 :
          /\ args.poly \/ n = 0
          /\ ConstructedWith(n, FALSE, [NewVoice EXCEPT !.param = Zero], Zero)
    /\ dspInputs = NumInputs
    /\ ret = {parseUI(args.ui)}

NextMidi ==
    \/ HostSetOutputParamHandler
    \/ HostMidiMessage
    \/ HostCtrlChange
    \/ HostPitchWheel

SpecMidi == InitMidi /\ [][NextMidi]_vars

\* A poly instance of a DSP of MidiUIs with up to MaxVoices voices, its
\* notes played by MIDI messages, and the controllers of ctrlChange with
\* the two that stop all notes.
PolyControllers == {7, 120, 123}

HostPolyCtrlChange ==
    \E ctrl \in PolyControllers, value \in Data2 : CtrlChange(ctrl, value)

InitPolyMidi ==
    /\ args \in [poly : {TRUE}, ui : MidiUIs]
    /\ \E n \in 0 .. MaxVoices :
          ConstructedWith(n, FALSE, [NewVoice EXCEPT !.param = Zero], Zero)
    /\ dspInputs = NumInputs
    /\ ret = {parseUI(args.ui)}

NextPolyMidi ==
    \/ HostSetOutputParamHandler
    \/ HostMidiMessage
    \/ HostPolyCtrlChange

SpecPolyMidi == InitPolyMidi /\ [][NextPolyMidi]_vars

\* ------------------------------------------------- setup: createNode
\* createNode(context, name, ...) of the two generators, sp false: each
\* class keeps the names of the processors it has installed in its static
\* gWorkletProcessors. A call runs to its await of audioWorklet.addModule
\* and goes on when the promise is settled; other calls run in between.
WorkletNames == {"osc", "verb"}
Generators == {"FaustMonoDspGenerator", "FaustPolyDspGenerator"}
Calls == 1 .. MaxCalls

\* The generators before any call, every call yet to start.
NoneInstalled ==
    [gWorkletProcessors |-> [generator \in Generators |-> {}],
     pc |-> [call \in Calls |-> "start"]]

\* createNode up to its await: if the class has the name, the node is made
\* at once; otherwise addModule is called and the call waits.
createNode(st, call) ==
    IF args[call].name \in st.gWorkletProcessors[args[call].generator]
    THEN [st EXCEPT !.pc[call] = "node"]
    ELSE [st EXCEPT !.pc[call] = "addModule"]

\* createNode after its await: the name is added and the node is made, or
\* the promise was rejected and the catch returns null.
createNodeResumed(st, call, resolved) ==
    IF resolved
    THEN [st EXCEPT
            !.gWorkletProcessors[args[call].generator] =
                @ \cup {args[call].name},
            !.pc[call] = "installed"]
    ELSE [st EXCEPT !.pc[call] = "null"]

CreateNode(call) ==
    /\ ret.pc[call] = "start"
    /\ ret' = createNode(ret, call)
    /\ UNCHANGED <<instance, args>>

Settled(call, resolved) ==
    /\ ret.pc[call] = "addModule"
    /\ ret' = createNodeResumed(ret, call, resolved)
    /\ UNCHANGED <<instance, args>>

HostCreateNode == \E call \in Calls : CreateNode(call)
AddModuleSettled == \E call \in Calls, resolved \in BOOLEAN : Settled(call, resolved)

InitInstall ==
    /\ Constructed(0, FALSE)
    /\ dspInputs = NumInputs
    /\ args \in [Calls -> [name : WorkletNames, generator : Generators]]
    /\ ret = NoneInstalled

NextInstall ==
    \/ HostCreateNode
    \/ AddModuleSettled

SpecInstall == InitInstall /\ [][NextInstall]_vars

\* ------------------------------------------------- setup: initMemory
\* What a constructor is given: the kind of instance, the channel counts the
\* kernel reports (getNumInputs, getNumOutputs), those its JSON declares,
\* the size of a kernel's state (fJSONDsp.size) and of the effect's (0 with
\* no effect), the polyphony, the sample width and the buffer size.
SetupArgs ==
    [poly : {TRUE}, inputs : 0 .. 2, outputs : 1 .. 2,
     jsonInputs : {1}, jsonOutputs : 1 .. 2, size : {8, 12},
     effectSize : {0, 8}, nVoices : 0 .. MaxVoices, sampleSize : {4, 8},
     bufferSize : {2, 4}]
    \cup
    [poly : {FALSE}, inputs : 0 .. 2, outputs : 1 .. 2,
     jsonInputs : {1}, jsonOutputs : 1 .. 2, size : {8, 12},
     effectSize : {0}, nVoices : {1}, sampleSize : {4, 8},
     bufferSize : {2, 4}]

\* initMemory for the arguments a: fEffect, $audio = fAudioInputs,
\* fAudioOutputs, fAudioMixing, fAudioMixingHalf, $audioInputs,
\* $audioOutputs and $audioMixing; gPtrSize is the sample width.
effectAt(a) == a.size * a.nVoices
audioAt(a) == IF a.poly THEN effectAt(a) + a.effectSize ELSE a.size
inputsTableAt(a) == audioAt(a)
outputsTableAt(a) == inputsTableAt(a) + a.inputs * a.sampleSize
mixingTableAt(a) == outputsTableAt(a) + a.outputs * a.sampleSize
mixingHalfTableAt(a) == mixingTableAt(a) + a.outputs * a.sampleSize
inputsAt(a) ==
    IF a.poly THEN mixingHalfTableAt(a) + a.outputs * a.sampleSize
    ELSE outputsTableAt(a) + a.outputs * a.sampleSize
\* $audioOutputs that leaves room for one input channel only.
outputsAtOneInput(a) == inputsAt(a) + a.bufferSize * a.sampleSize
outputsAt(a) == inputsAt(a) + a.inputs * a.bufferSize * a.sampleSize
mixingAt(a) == outputsAt(a) + a.outputs * a.bufferSize * a.sampleSize

\* The entries written to the pointer tables.
inputPointer(a, chan) == inputsAt(a) + a.bufferSize * a.sampleSize * chan
outputPointer(a, chan) == outputsAt(a) + a.bufferSize * a.sampleSize * chan
mixingPointer(a, chan) == mixingAt(a) + a.bufferSize * a.sampleSize * chan
mixingHalfPointer(a, chan) ==
    mixingAt(a) + a.bufferSize * a.sampleSize * chan
    + (a.bufferSize * a.sampleSize) \div 2

\* Bytes [from, upto) of the memory, named and numbered.
Region(name, chan, from, upto) ==
    [chan |-> chan, name |-> name, from |-> from, upto |-> upto]

\* HEAPF.subarray(pointer >> log2(gSampleSize),
\* (pointer + fBufferSize * gSampleSize) >> log2(gSampleSize)), in bytes.
View(a, name, chan, pointer) ==
    Region(name, chan, (pointer \div a.sampleSize) * a.sampleSize,
           ((pointer + a.bufferSize * a.sampleSize) \div a.sampleSize)
              * a.sampleSize)

\* The sub-regions the offsets lay out: the state blocks, the pointer tables
\* and the sample storage the table entries point to.
StateBlocks(a) ==
    IF a.poly
    THEN {Region("voice", v, a.size * v, a.size * (v + 1)) :
             v \in 0 .. (a.nVoices - 1)}
         \cup {Region("effect", 0, effectAt(a), effectAt(a) + a.effectSize)}
    ELSE {Region("dsp", 0, 0, a.size)}

PointerTables(a) ==
    {Region("inputs table", 0, inputsTableAt(a), outputsTableAt(a))}
    \cup
    (IF a.poly
     THEN {Region("outputs table", 0, outputsTableAt(a), mixingTableAt(a)),
           Region("mixing table", 0, mixingTableAt(a), mixingHalfTableAt(a)),
           Region("mixing half table", 0, mixingHalfTableAt(a), inputsAt(a))}
     ELSE {Region("outputs table", 0, outputsTableAt(a), inputsAt(a))})

Storage(a) ==
    {Region("inputs", chan, inputPointer(a, chan),
            inputPointer(a, chan) + a.bufferSize * a.sampleSize) :
        chan \in 0 .. (a.inputs - 1)}
    \cup
    {Region("outputs", chan, outputPointer(a, chan),
            outputPointer(a, chan) + a.bufferSize * a.sampleSize) :
        chan \in 0 .. (a.outputs - 1)}
    \cup
    (IF a.poly
     THEN {Region("mixing", chan, mixingPointer(a, chan),
                  mixingPointer(a, chan) + a.bufferSize * a.sampleSize) :
              chan \in 0 .. (a.outputs - 1)}
     ELSE {})

\* The half mixing buffer: what the entries of the table at fAudioMixingHalf
\* point to, half a buffer for each channel.
HalfStorage(a) ==
    IF a.poly
    THEN {Region("mixing half", chan, mixingHalfPointer(a, chan),
                 mixingHalfPointer(a, chan)
                 + (a.bufferSize * a.sampleSize) \div 2) :
              chan \in 0 .. (a.outputs - 1)}
    ELSE {}

\* fInChannels and fOutChannels.
ChannelViews(a) ==
    {View(a, "fInChannels", chan, inputPointer(a, chan)) :
        chan \in 0 .. (a.inputs - 1)}
    \cup
    {View(a, "fOutChannels", chan, outputPointer(a, chan)) :
        chan \in 0 .. (a.outputs - 1)}

\* The constructors: the control tree is parsed, the memory is laid out
\* with the channel counts the kernel reports and the size its JSON
\* declares, and the kernels are initialised. No statement compares what
\* the kernel reports with what the JSON declares, and none throws: an
\* instance is built whatever they are.
Built(a) ==
    [failed |-> FALSE,
     regions |-> StateBlocks(a) \cup PointerTables(a) \cup Storage(a),
     half |-> HalfStorage(a),
     views |-> ChannelViews(a)]

Construct ==
    /\ ret = {}
    /\ ret' = {Built(args)}
    /\ UNCHANGED <<instance, args>>

InitSetup ==
    /\ Constructed(0, FALSE)
    /\ dspInputs = NumInputs
    /\ args \in SetupArgs
    /\ ret = {}

NextSetup == Construct

SpecSetup == InitSetup /\ [][NextSetup]_vars

\* ------------------------------------------------------------- properties
FreeVoices == {v \in VoiceIds : fVoiceTable[v].fCurNote = kFreeVoice}
ReleasingVoices == {v \in VoiceIds : fVoiceTable[v].fCurNote = kReleaseVoice}

\* The voices a steal chooses among: the Releasing ones if there is one,
\* otherwise all of them.
StealCandidates == IF ReleasingVoices # {} THEN ReleasingVoices ELSE VoiceIds

\* The place of voice v in the allocation history, 0 if never allocated.
Position(order, v) ==
    IF \E i \in 1 .. Len(order) : order[i] = v
    THEN CHOOSE i \in 1 .. Len(order) : order[i] = v
    ELSE 0

Sorted(s) == \A i, j \in 1 .. Len(s) : i < j => s[i].time <= s[j].time

\* The queued form of a drained event.
Queued(e) == [type |-> e.type, time |-> e.time, data |-> e.data, id |-> e.id]

\* C1: with at least one Free voice, keyOn(pitch) takes the lowest-indexed
\* Free voice, which then carries the pitch; every other voice is left as it
\* was, so one more voice is bound after each such keyOn.
C1_KeyOnTakesLowestFree ==
    [][\A pitch \in Pitches, velocity \in Velocities :
         (KeyOn(pitch, velocity) /\ FreeVoices # {}) =>
            LET lowest == Min(FreeVoices)
            IN  /\ fVoiceTable'[lowest].fCurNote = pitch
                /\ \A w \in VoiceIds \ {lowest} : fVoiceTable'[w] = fVoiceTable[w]
                /\ FreeVoices' = FreeVoices \ {lowest}
                /\ last'.result = "none"]_vars

\* C1 witness: as many keyOns as voices, on voices all Free, have bound every
\* voice, in index order.
C1_AllVoicesBound ==
    /\ voices = MaxVoices
    /\ last.op = "keyOn"
    /\ \A v \in VoiceIds : fVoiceTable[v].fCurNote \in Pitches /\ fVoiceTable[v].fDate = 1
    /\ allocOrder = [i \in 1 .. voices |-> i - 1]

\* C2: with no Free voice, keyOn steals the Releasing voice of smallest date
\* if a voice is Releasing and the voice of smallest date otherwise; the
\* stolen voice becomes LegatoSteal and no other voice changes.
C2_StealPrefersOldestReleasing ==
    [][\A pitch \in Pitches, velocity \in Velocities :
         (KeyOn(pitch, velocity) /\ voices > 0 /\ FreeVoices = {}) =>
            \E s \in StealCandidates :
               /\ \A c \in StealCandidates :
                     fVoiceTable[s].fDate <= fVoiceTable[c].fDate
               /\ fVoiceTable'[s].fCurNote = kLegatoVoice
               /\ allocOrder' = Touch(allocOrder, s)
               /\ \A w \in VoiceIds \ {s} : fVoiceTable'[w] = fVoiceTable[w]]_vars

\* C2 witness: a keyOn has stolen voice 1, whose date was 2, while voice 0
\* of date 1 stays bound to its pitch: voice 1 was Releasing, voice 0 not.
C2_ReleasingStolenBeforeOlderActive ==
    /\ voices = 2
    /\ last.op = "keyOn"
    /\ fVoiceTable[0].fCurNote \in Pitches /\ fVoiceTable[0].fDate = 1
    /\ fVoiceTable[1].fCurNote = kLegatoVoice /\ fVoiceTable[1].fDate = 3

\* C3: the voice a steal takes is, among the candidates of the preferred
\* state, the least recently allocated one.
C3_StealTakesLeastRecentlyAllocated ==
    [][\A pitch \in Pitches, velocity \in Velocities :
         (KeyOn(pitch, velocity) /\ voices > 0 /\ FreeVoices = {}) =>
            \E s \in StealCandidates :
               /\ allocOrder' = Touch(allocOrder, s)
               /\ fVoiceTable'[s].fDate = fVoiceTable[s].fDate + 1
               /\ \A c \in StealCandidates :
                     Position(allocOrder, s) <= Position(allocOrder, c)]_vars

\* C4: no step decreases the date of a voice, and a keyOn that allocates or
\* steals a voice strictly increases the date of that voice.
C4_DateStrictlyIncreasesOnAllocation ==
    [][/\ \A v \in VoiceIds : fVoiceTable'[v].fDate >= fVoiceTable[v].fDate
       /\ \A pitch \in Pitches, velocity \in Velocities :
            (KeyOn(pitch, velocity) /\ voices > 0) =>
               LET allocated == allocOrder'[Len(allocOrder')]
               IN  /\ fVoiceTable'[allocated].fCurNote \in {pitch, kLegatoVoice}
                   /\ fVoiceTable'[allocated].fDate > fVoiceTable[allocated].fDate]_vars

\* C4 witness: a voice has been allocated, retired, allocated again and then
\* stolen, its date going up each time.
C4_DateRaisedThreeTimes ==
    /\ last.op = "keyOn"
    /\ \E v \in VoiceIds :
          /\ fVoiceTable[v].fDate = 3
          /\ fVoiceTable[v].fCurNote = kLegatoVoice
          /\ allocOrder[Len(allocOrder)] = v

\* C5: every slice rendered right after an event was applied starts at the
\* sample offset of that event.
C5_SliceStartsAtEventOffset ==
    last.op = "compute" =>
       \A i \in 1 .. Len(last.slices) :
          last.slices[i].event # <<>> =>
             last.slices[i].start = last.slices[i].event[1].sampleOffset

\* C6: when the drained events have strictly increasing offsets within
\* [0, BufferSize), the slices of the call are consecutive from sample 0,
\* none has a negative length and the lengths add up to BufferSize.
C6_SliceCoverage ==
    (/\ last.op = "compute" /\ last.processed
     /\ \A i \in 1 .. Len(last.drained) :
          /\ last.drained[i].sampleOffset \in 0 .. (BufferSize - 1)
          /\ i > 1 => last.drained[i - 1].sampleOffset < last.drained[i].sampleOffset)
    => LET n == Len(last.slices)
       IN  /\ n = Len(last.drained) + 1
           /\ last.slices[1].start = 0
           /\ \A i \in 1 .. n : last.slices[i].length >= 0
           /\ \A i \in 1 .. (n - 1) :
                 last.slices[i + 1].start =
                    last.slices[i].start + last.slices[i].length
           /\ SumSeq([i \in 1 .. n |-> last.slices[i].length]) = BufferSize

\* C7: between callbacks every entry of the output and of the mixing pointer
\* table holds the offset written at setup.
C7_PointerTablesRestored ==
    /\ outPtrTable = originalOutputBufferPointers
    /\ mixPtrTable = originalMixingBufferPointers

\* C8: with an effect configured, a processed callback that returns has run
\* the effect kernel once, over BufferSize frames from the original output
\* offsets.
C8_EffectOverWholeBuffer ==
    (last.op = "compute" /\ last.processed /\ last.result = "true" /\ hasEffect)
    => last.effect = <<[out |-> originalOutputBufferPointers,
                        count |-> BufferSize]>>

\* C9: a processing compute removes from the queue exactly the events whose
\* time is before the end of the window, applies each of them once, in the
\* order of their times, and leaves the later events queued.
C9_DrainsAndAppliesDueEvents ==
    [][(last'.op = "compute" /\ last'.processed) =>
          /\ [i \in 1 .. Len(last'.drained) |-> Queued(last'.drained[i])]
                = SelectSeq(scheduledEvents,
                            LAMBDA e : e.time < endOfCurrentFrame)
          /\ scheduledEvents'
                = SelectSeq(scheduledEvents,
                            LAMBDA e : e.time >= endOfCurrentFrame)
          /\ last'.applied = last'.drained
          /\ Sorted(last'.applied)]_vars

\* C10: the queue is sorted by time in every state; scheduleEvent puts the
\* new event behind every queued event that is not later and leaves the
\* queued events in their order; compute leaves what it does not drain in
\* its order.
C10_QueueSortedAndStable ==
    /\ []Sorted(scheduledEvents)
    /\ [][/\ nScheduled' # nScheduled =>
               \E k \in 0 .. Len(scheduledEvents) :
                  /\ scheduledEvents' =
                        SubSeq(scheduledEvents, 1, k)
                        \o <<scheduledEvents'[k + 1]>>
                        \o SubSeq(scheduledEvents, k + 1, Len(scheduledEvents))
                  /\ scheduledEvents'[k + 1].id = Len(scheduledEvents)
                  /\ \A i \in 1 .. k :
                        scheduledEvents[i].time <= scheduledEvents'[k + 1].time
                  /\ \A i \in (k + 1) .. Len(scheduledEvents) :
                        scheduledEvents[i].time > scheduledEvents'[k + 1].time
          /\ last'.op = "compute" =>
               \E k \in 0 .. Len(scheduledEvents) :
                  scheduledEvents' =
                     SubSeq(scheduledEvents, k + 1, Len(scheduledEvents))]_vars

\* C10 witness: two events are queued, the one scheduled second ahead of
\* the one scheduled first because its time is earlier.
C10_LaterScheduledEarlierQueued ==
    /\ Len(scheduledEvents) = 2
    /\ scheduledEvents[1].id = 1 /\ scheduledEvents[2].id = 0
    /\ scheduledEvents[1].time < scheduledEvents[2].time

\* The voices bound to pitch.
Bound(pitch) == {v \in VoiceIds : fVoiceTable[v].fCurNote = pitch}

\* What keyOff(hard) leaves of a voice.
KeyedOff(old, new, hard) ==
    /\ \A index \in new.fGateLabel : new.gate[index] = 0
    /\ new.fCurNote = IF hard THEN kFreeVoice ELSE kReleaseVoice
    /\ ~hard => new.fRelease = HalfRate
    /\ new.fDate = old.fDate

\* C14: a voice's keyOff closes every gate of the voice; a hard one frees the
\* voice at once, any other leaves it Releasing with fRelease at half the
\* sample rate. Stated on allNotesOff, which calls it on every voice, and on
\* the keyOff of a bound pitch, which calls it on one.
C14_VoiceKeyOffClosesGates ==
    [][/\ \A hard \in BOOLEAN :
            AllNotesOff(hard) =>
               \A v \in VoiceIds :
                  KeyedOff(fVoiceTable[v], fVoiceTable'[v], hard)
       /\ \A pitch \in Pitches :
            (KeyOff(pitch) /\ Bound(pitch) # {}) =>
               \E v \in Bound(pitch) :
                  KeyedOff(fVoiceTable[v], fVoiceTable'[v], FALSE)]_vars

\* C14 witness: a keyOff has left a voice that had been keyed on Releasing,
\* its gates closed and its release budget full.
C14_ReleasedWithGatesClosed ==
    /\ last.op = "keyOff"
    /\ \E v \in VoiceIds :
          /\ fVoiceTable[v].fDate > 0
          /\ fVoiceTable[v].fCurNote = kReleaseVoice
          /\ fVoiceTable[v].fRelease = HalfRate
          /\ \A index \in fVoiceTable[v].fGateLabel : fVoiceTable[v].gate[index] = 0

\* C15: keyOff(pitch) releases one voice, a voice bound to the pitch whose
\* date is the smallest among those bound to it, and leaves every other
\* voice as it was; with no voice bound to the pitch no voice changes and
\* the call returns.
C15_KeyOffReleasesOldestBound ==
    [][\A pitch \in Pitches :
         KeyOff(pitch) =>
            /\ last'.result = "none"
            /\ IF Bound(pitch) = {}
               THEN fVoiceTable' = fVoiceTable
               ELSE \E s \in Bound(pitch) :
                      /\ \A c \in Bound(pitch) :
                            fVoiceTable[s].fDate <= fVoiceTable[c].fDate
                      /\ fVoiceTable'[s].fCurNote = kReleaseVoice
                      /\ \A w \in VoiceIds \ {s} :
                            fVoiceTable'[w] = fVoiceTable[w]]_vars

\* C15 witness: a keyOff has released voice 1, of date 1, while voice 0, of
\* date 2, stays bound to its pitch.
C15_OlderVoiceReleased ==
    /\ voices = 2
    /\ last.op = "keyOff"
    /\ fVoiceTable[0].fCurNote \in Pitches /\ fVoiceTable[0].fDate = 2
    /\ fVoiceTable[1].fCurNote = kReleaseVoice /\ fVoiceTable[1].fDate = 1
    /\ fVoiceTable[1].fRelease = HalfRate

\* A voice as the scenario has it: its note and its date.
Is(v, note, date) ==
    fVoiceTable[v].fCurNote = note /\ fVoiceTable[v].fDate = date

\* C16: with 2 voices, both Free and never allocated, keyOn(60) makes the
\* first voice, A, Active(60) with date 1; keyOn(64) then makes the other, B,
\* Active(64) with date 2; keyOn(67) then steals A, which becomes LegatoSteal
\* with date 3; keyOff(60) then changes no voice and returns.
C16_TwoVoiceScenario ==
    [][voices = 2 =>
         \A A, B \in VoiceIds :
            A # B =>
              /\ ((\E velocity \in Velocities : KeyOn(60, velocity))
                  /\ Is(A, kFreeVoice, 0) /\ Is(B, kFreeVoice, 0) /\ A < B)
                    => (Is(A, 60, 1) /\ Is(B, kFreeVoice, 0))'
              /\ ((\E velocity \in Velocities : KeyOn(64, velocity))
                  /\ Is(A, 60, 1) /\ Is(B, kFreeVoice, 0))
                    => (Is(A, 60, 1) /\ Is(B, 64, 2))'
              /\ ((\E velocity \in Velocities : KeyOn(67, velocity))
                  /\ Is(A, 60, 1) /\ fVoiceTable[B].fCurNote = 64)
                    => (Is(A, kLegatoVoice, 3) /\ fVoiceTable[B].fCurNote = 64)'
              /\ (KeyOff(60) /\ fVoiceTable[A].fCurNote = kLegatoVoice
                             /\ fVoiceTable[B].fCurNote = 64)
                    => (fVoiceTable' = fVoiceTable /\ last'.result = "none")]_vars

\* C17: with no voice configured a keyOn, direct or made by a NOTE_ON event
\* inside compute, is dropped: nothing is thrown, the (empty) voice table and
\* the allocation history stay as they were, and a compute that got past its
\* checks renders all its slices and leaves the pointer tables reset.
C17_NoVoiceKeyOnDropped ==
    voices = 0 =>
       /\ last.result # "threw"
       /\ allocOrder = <<>>
       /\ outPtrTable = originalOutputBufferPointers
       /\ mixPtrTable = originalMixingBufferPointers
       /\ (last.op = "compute" /\ last.processed) =>
             Len(last.slices) = Len(last.drained) + 1

\* C13: after a slice, a voice that was Releasing when the voices ran is Free
\* if the mixer measured it below the threshold and its fRelease, the slice
\* length taken off, is no longer positive; it is still Releasing if it was
\* measured at or above the threshold or its fRelease is still positive.
C13_RetirementRule ==
    last.op = "compute" =>
       \A i \in 1 .. Len(last.slices) :
          \A v \in DOMAIN last.slices[i].before :
             last.slices[i].before[v].fCurNote = kReleaseVoice =>
                last.slices[i].after[v].fCurNote =
                   IF /\ v \in last.slices[i].below
                      /\ last.slices[i].after[v].fRelease <= 0
                   THEN kFreeVoice
                   ELSE kReleaseVoice

\* C11: compute returns false if the instance has been destroyed and true in
\* every other state, whatever the host passes.
C11_FalseIffDestroyed ==
    last.op = "compute" =>
       last.result = IF fDestroyed THEN "false" ELSE "true"

\* C12: once the instance is destroyed it stays destroyed, and a compute
\* then calls no kernel, no mixer and no handler, drains no event, copies
\* nothing to the host and leaves the voices, the effect, the queue, the
\* pointer tables and the output timer as they were.
C12_DestroyedComputeIsNoOp ==
    [][fDestroyed =>
         /\ fDestroyed'
         /\ last'.op = "compute" =>
               /\ last'.slices = <<>> /\ last'.effect = <<>>
               /\ last'.handled = <<>> /\ last'.calls = <<>>
               /\ last'.drained = <<>> /\ last'.applied = <<>>
               /\ ~last'.processed /\ ~last'.copied /\ last'.read = 0
               /\ UNCHANGED <<fVoiceTable, effectParam, allocOrder,
                              scheduledEvents, outPtrTable, mixPtrTable,
                              fOutputsTimer>>]_vars

\* C12 witness: a compute has returned on a destroyed instance that was
\* started and given a compute handler after destroy, with a voice playing
\* and an event queued that was due in that callback.
C12_ComputeAfterDestroy ==
    /\ fDestroyed /\ fProcessing /\ fComputeHandler
    /\ last.op = "compute"
    /\ \E v \in VoiceIds : fVoiceTable[v].fCurNote \in Pitches
    /\ scheduledEvents # <<>>
    /\ scheduledEvents[1].time < currentTime
    /\ scheduledEvents[1].time >= currentTime - BufferSize * TicksPerSample

\* C18: a mono instance whose DSP has no input, processing, called with
\* valid outputs: compute copies no input channel and returns true whatever
\* is passed as input.
C18_NoInputDspIgnoresInput ==
    [][\A input \in MonoArgs :
         (/\ MonoCompute(input, "ok")
          /\ dspInputs = 0 /\ fProcessing /\ ~fDestroyed)
         => (last'.result = "true" /\ last'.read = 0 /\ last'.copied)]_vars

\* The bargraphs a call pushed to the output handler.
Pushed(call) == {k \in 1 .. Len(call.handled) :
                   \E i \in 1 .. Len(fOutputsItems) :
                      call.handled[k] = fOutputsItems[i]}

\* C19: with an output handler set and a bargraph registered, a processed
\* callback pushes if and only if it is the 5th since the last push, and a
\* push reports every bargraph once.
C19_PushEveryFifthCallback ==
    [][(/\ last'.op = "compute" /\ last'.processed /\ last'.result = "true"
        /\ fOutputHandler /\ Len(fOutputsItems) > 0 /\ sincePush # -1)
       => /\ (Pushed(last') # {}) <=> (sincePush + 1 = 5)
          /\ Pushed(last') # {} =>
                \A i \in 1 .. Len(fOutputsItems) :
                   Cardinality({k \in Pushed(last') :
                      last'.handled[k] = fOutputsItems[i]}) = 1]_vars

\* C20: setParamValue of an address that is not in fPathTable asks the
\* kernel for no write and changes no parameter, and getParamValue of such
\* an address returns 0.
C20_UnknownAddressIgnored ==
    [][\A path \in MonoPaths :
         path \notin DOMAIN fPathTable =>
            /\ \A value \in ParamValues :
                  MonoSetParamValue(path, value) =>
                     (last'.calls = <<>> /\ HEAPF' = HEAPF)
            /\ MonoGetParamValue(path) => last'.returned = 0]_vars

\* C26: scheduleEvent and compute run to completion on the thread of the
\* instance, so they interleave call by call. In any such interleaving no
\* event is lost or duplicated and the events are popped in time order:
\* a scheduleEvent adds its event, and nothing else, to the queue; a compute
\* that gets past its checks pops a front part of the queue, in the order
\* of the queue, every event popped being no later than any event left; any
\* other call leaves the queue as it was.
C26_QueueKeepsEveryEvent ==
    [][/\ \A time \in 0 .. MaxTime, type \in EventTypes :
            \A data \in EventData(type) :
               ScheduleEvent(time, type, data) =>
                  \E k \in 1 .. Len(scheduledEvents') :
                     /\ scheduledEvents'[k] =
                           [type |-> type, time |-> time, data |-> data,
                            id |-> Len(scheduledEvents)]
                     /\ scheduledEvents =
                           SubSeq(scheduledEvents', 1, k - 1)
                           \o SubSeq(scheduledEvents', k + 1,
                                     Len(scheduledEvents'))
       /\ last'.op = "compute" =>
            /\ scheduledEvents =
                  [i \in 1 .. Len(last'.drained) |-> Queued(last'.drained[i])]
                  \o scheduledEvents'
            /\ Sorted(last'.drained)
            /\ \A i \in 1 .. Len(last'.drained) :
                  \A j \in 1 .. Len(scheduledEvents') :
                     last'.drained[i].time <= scheduledEvents'[j].time
       /\ last'.op \notin {"compute", "scheduleEvent"} =>
            scheduledEvents' = scheduledEvents]_vars

\* C26 witness: the first event scheduled was popped by a compute before
\* the second was scheduled, which therefore got the id 0 again and is the
\* only event queued.
C26_ScheduledAfterPop ==
    /\ last.op = "scheduleEvent" /\ nScheduled = 2
    /\ currentFrame >= 1
    /\ Len(scheduledEvents) = 1 /\ scheduledEvents[1].id = 0

\* C27: allNotesOff(true) leaves every voice Free; allNotesOff(false) leaves
\* every voice that was not Free Releasing and every voice that was Free
\* still Free.
C27_AllNotesOffStopsPlayingVoices ==
    [][\A hard \in BOOLEAN :
         AllNotesOff(hard) =>
            \A v \in VoiceIds :
               fVoiceTable'[v].fCurNote =
                  IF hard \/ fVoiceTable[v].fCurNote = kFreeVoice
                  THEN kFreeVoice
                  ELSE kReleaseVoice]_vars

\* C30: every slice of a compute lies inside the channel buffers: its start
\* and its length are not negative and its end is at most BufferSize, and
\* the sample offset of every drained event is within 0 .. BufferSize.
C30_SlicesInsideBuffer ==
    last.op = "compute" =>
       /\ \A i \in 1 .. Len(last.slices) :
             /\ last.slices[i].start >= 0
             /\ last.slices[i].length >= 0
             /\ last.slices[i].start + last.slices[i].length <= BufferSize
       /\ \A i \in 1 .. Len(last.drained) :
             last.drained[i].sampleOffset \in 0 .. BufferSize

\* C23: remap(0, 0, 127, min, max) is min, remap(127, 0, 127, min, max) is
\* max, and remap is monotonic in v: over the values it was called with it
\* never decreases as v grows, or never increases.
C23_RemapLaw ==
    /\ \A done \in ret :
          /\ done[1] = 0 => done[2] = args.min
          /\ done[1] = 127 => done[2] = args.max
    /\ \/ \A p, q \in ret : p[1] <= q[1] => Leq(p[2], q[2])
       \/ \A p, q \in ret : p[1] <= q[1] => Leq(q[2], p[2])

\* Two regions share no byte.
Apart(r, q) == r.upto <= q.from \/ q.upto <= r.from \/ r.from = r.upto
               \/ q.from = q.upto

PairwiseApart(S) == \A r, q \in S : r # q => Apart(r, q)

\* Every channel view is a run of bufferSize samples and shares no byte with
\* the view of another channel.
ViewsApart(a, made) ==
    /\ PairwiseApart(made.views)
    /\ \A w \in made.views : w.upto - w.from = a.bufferSize * a.sampleSize

\* C25 as stated: the state blocks, the pointer tables and the sample
\* storage of the inputs, the outputs, the mixing buffer and the half mixing
\* buffer are pairwise non-overlapping, and every channel view is a run of
\* bufferSize samples disjoint from every other channel's.
C25_AllRegionsApart ==
    \A made \in ret :
       /\ PairwiseApart(made.regions \cup made.half)
       /\ ViewsApart(args, made)

\* C25 amended: the state blocks, the pointer tables and the sample storage
\* of the inputs, the outputs and the mixing buffer are pairwise
\* non-overlapping, and every channel view is a run of bufferSize samples
\* disjoint from every other channel's; the half mixing buffer has no
\* storage of its own: the entry of a channel in its table points to the
\* middle of the mixing storage of that channel, of which it is the second
\* half.
C25_RegionsApartHalfInsideMixing ==
    \A made \in ret :
       /\ PairwiseApart(made.regions)
       /\ ViewsApart(args, made)
       /\ \A h \in made.half :
             \E x \in made.regions :
                /\ x.name = "mixing" /\ x.chan = h.chan
                /\ h.upto = x.upto
                /\ 2 * (h.from - x.from) = x.upto - x.from

\* C25 witness: a poly instance of 2 voices with an effect, 2 inputs and 2
\* outputs and samples of 8 bytes has been laid out.
C25_PolyLaidOut ==
    /\ args # <<>> /\ ret # {}
    /\ args.poly /\ args.nVoices = 2 /\ args.effectSize > 0
    /\ args.inputs = 2 /\ args.outputs = 2 /\ args.sampleSize = 8
    /\ \A made \in ret : Cardinality(made.regions) = 13

\* C28: when the channel counts the kernel reports differ from those its
\* JSON declares, setup fails instead of building an instance.
C28_MismatchFailsSetup ==
    \A made \in ret :
       (args.inputs # args.jsonInputs \/ args.outputs # args.jsonOutputs)
       => made.failed

\* The leaves under the nodes of items, in depth-first order.
RECURSIVE LeavesOf(_)
LeavesOf(items) ==
    IF items = <<>> THEN <<>>
    ELSE (IF Head(items).type \in GroupTypes
          THEN LeavesOf(Head(items).items)
          ELSE <<Head(items)>>)
         \o LeavesOf(Tail(items))

Addresses(leaves) == [i \in 1 .. Len(leaves) |-> leaves[i].address]

\* C21: parsing a control tree appends the address of every bargraph leaf
\* to the output list and the address of every other leaf to the input
\* list, both in depth-first order, with fPathTable[address] = index for the
\* leaves of the input list; no group is registered and every leaf address
\* is in exactly one of the two lists, once.
C21_ParseRegistersLeaves ==
    \A reg \in ret :
       /\ reg.fOutputsItems =
             Addresses(SelectSeq(LeavesOf(args.ui),
                                 LAMBDA leaf : leaf.type \in OutputTypes))
       /\ reg.fInputsItems =
             Addresses(SelectSeq(LeavesOf(args.ui),
                                 LAMBDA leaf : leaf.type \notin OutputTypes))
       /\ \A i \in 1 .. Len(LeavesOf(args.ui)) :
             LeavesOf(args.ui)[i].type \notin OutputTypes =>
                reg.fPathTable[LeavesOf(args.ui)[i].address]
                   = LeavesOf(args.ui)[i].index
       /\ \A i \in 1 .. Len(LeavesOf(args.ui)) :
             Cardinality({k \in 1 .. Len(reg.fOutputsItems) :
                           reg.fOutputsItems[k] = LeavesOf(args.ui)[i].address})
             + Cardinality({k \in 1 .. Len(reg.fInputsItems) :
                           reg.fInputsItems[k] = LeavesOf(args.ui)[i].address})
             = 1
       /\ Len(reg.fOutputsItems) + Len(reg.fInputsItems)
             = Len(LeavesOf(args.ui))

\* C21 witness: a tree whose first entry is a group of a slider and a
\* bargraph and whose second entry is a button has been parsed.
C21_NestedTreeParsed ==
    /\ args # <<>> /\ ret # {}
    /\ \A reg \in ret :
          /\ reg.fInputsItems = <<"/synth/g/a", "/synth/b">>
          /\ reg.fOutputsItems = <<"/synth/g/b">>
          /\ reg.fPathTable["/synth/b"] = 8

\* What a voice keyOn that is not legato leaves of the voice old.
Written(old, new, pitch, velocity) ==
    /\ \A index \in old.fFreqLabel : new.key[index] = fKeyFun(old, pitch)
    /\ \A index \in old.fGateLabel : new.gate[index] = 1
    /\ \A index \in old.fGainLabel : new.gain[index] = fVelFun(old, velocity)
    /\ new.fCurNote = pitch
    /\ new.fNextNote = old.fNextNote /\ new.fNextVel = old.fNextVel
    /\ new.param = old.param

\* What a legato one leaves of it.
Pending(old, new, pitch, velocity) ==
    /\ new.fNextNote = pitch /\ new.fNextVel = velocity
    /\ new.key = old.key /\ new.gate = old.gate /\ new.gain = old.gain
    /\ new.param = old.param
    /\ new.fCurNote = old.fCurNote

\* The voice got.voice, allocated by getFreeVoice, before and after its
\* keyOn; the keyOn is legato when the voice was stolen.
Keyed(got, vt, pitch, velocity) ==
    IF got.vt[got.voice].fCurNote = kLegatoVoice
    THEN Pending(got.vt[got.voice], vt[got.voice], pitch, velocity)
    ELSE Written(got.vt[got.voice], vt[got.voice], pitch, velocity)

\* C29: a voice's keyOn that is not legato writes fKeyFun(pitch) to every
\* frequency/key index of the voice, 1 to every gate index and
\* fVelFun(velocity) to every gain index, and sets fCurNote to the pitch; a
\* legato one stores the pending pitch and velocity only: no kernel
\* parameter is written and fCurNote stays as it was.
C29_KeyOnWritesOrStoresPending ==
    [][\A pitch \in Pitches, velocity \in NoteVelocities :
         KeyOn(pitch, velocity) =>
            Keyed(getFreeVoice(fVoiceTable), fVoiceTable', pitch, velocity)]_vars

\* C29 witness: of two voices with a key and a gain control, the first,
\* written with pitch 60 and velocity 64, has been stolen by a keyOn of
\* pitch 67 and velocity 127, which it holds pending; the second was
\* written with pitch 64.
C29_PendingBesideWritten ==
    /\ voices = 2 /\ last.op = "keyOn"
    /\ fVoiceTable[0].fFreqLabel = {24} /\ fVoiceTable[0].fGainLabel = {32}
    /\ fVoiceTable[0].fKeyFun = "pitch"
    /\ fVoiceTable[0].fCurNote = kLegatoVoice
    /\ fVoiceTable[0].fNextNote = 67 /\ fVoiceTable[0].fNextVel = 127
    /\ fVoiceTable[0].key[24] = Num(60)
    /\ fVoiceTable[0].gain[32] = Div(Num(64), Num(127))
    /\ fVoiceTable[1].fCurNote = 64 /\ fVoiceTable[1].key[24] = Num(64)
    /\ \A index \in {8, 12} : fVoiceTable[0].gate[index] = 1

\* The input controls of the instance's control tree.
InputLeaves ==
    SelectSeq(LeavesOf(args.ui), LAMBDA leaf : leaf.type \in InputTypes)

Annotated(leaf, midi) == \E k \in 1 .. Len(leaf.meta) : leaf.meta[k] = midi

\* The control of leaf after a call, last'.data holding its arguments, with
\* the value v of 0 .. mx0 for the controls annotated midi.
Mapped(leaf, midi, v, mx0) ==
    IF Annotated(leaf, midi)
    THEN HEAPF'[fDSP + leaf.index]
            = remap(Num(v), Num(0), Num(mx0), leaf.min, leaf.max)
    ELSE HEAPF'[fDSP + leaf.index] = HEAPF[fDSP + leaf.index]

AllMapped(midi, v, mx0) ==
    /\ \A i \in 1 .. Len(InputLeaves) : Mapped(InputLeaves[i], midi, v, mx0)
    /\ \A offset \in DOMAIN HEAPF :
          (\A i \in 1 .. Len(InputLeaves) : offset # fDSP + InputLeaves[i].index)
             => HEAPF'[offset] = HEAPF[offset]

\* C22: in the base registry, here of a mono instance, ctrlChange(channel,
\* ctrl, value) with value in 0 .. 127 sets every control annotated
\* "ctrl <ctrl>" to remap(value, 0, 127, min, max) of its own range and
\* leaves every other control as it was, so that a controller without a
\* binding changes nothing; pitchWheel(channel, wheel) does the same with
\* remap(wheel, 0, 16383, min, max) for the controls annotated "pitchwheel".
C22_BoundControlsRemapped ==
    [][~args.poly =>
         /\ last'.op = "ctrlChange" =>
               AllMapped(Ctrl(last'.data[1]), last'.data[2], 127)
         /\ last'.op = "pitchWheel" =>
               AllMapped(Pitchwheel, last'.data[1], 16383)]_vars

\* C22 witness: a mono instance whose cutoff and gate are both annotated
\* "ctrl 7" after ctrlChange(0, 7, 64): each holds 64 mapped to its own
\* range, and the third control, bound to controller 123, is still at 0.
C22_TwoControlsOnOneController ==
    /\ ~args.poly /\ last.op = "ctrlChange"
    /\ HEAPF[4] = remap(Num(64), Num(0), Num(127), Num(-1), RoundRat(1, 10, 0))
    /\ HEAPF[8] = remap(Num(64), Num(0), Num(127), Num(0), Num(1))
    /\ HEAPF[4] # HEAPF[8]
    /\ HEAPF[12] = Zero

\* What the base midiMessage must have done with a message.
BaseDispatched(status, data1, data2, before, calls) ==
    IF status \div 16 = 11
    THEN /\ calls = <<<<"ctrlChange", data1, data2>>>>
         /\ HEAPF' = thisCtrlChange(before, data1, data2).heap
         /\ fVoiceTable' = thisCtrlChange(before, data1, data2).vt
    ELSE IF status \div 16 = 14
    THEN /\ calls = <<<<"pitchWheel", data2 * 128 + data1, 0>>>>
         /\ HEAPF' = pitchWheel(before, data2 * 128 + data1).heap
         /\ fVoiceTable' = pitchWheel(before, data2 * 128 + data1).vt
    ELSE /\ calls = <<>>
         /\ HEAPF' = HEAPF /\ fVoiceTable' = fVoiceTable

\* What the poly midiMessage must have done with it.
PolyDispatched(status, data1, data2, before, calls) ==
    IF status \div 16 = 8 \/ (status \div 16 = 9 /\ data2 = 0)
    THEN /\ calls = <<<<"keyOff", data1, data2>>>>
         /\ fVoiceTable' = polyKeyOff(fVoiceTable, data1)
    ELSE IF status \div 16 = 9
    THEN /\ calls = <<<<"keyOn", data1, data2>>>>
         /\ fVoiceTable' = polyKeyOn(fVoiceTable, data1, data2).vt
    ELSE /\ calls # <<>> /\ Head(calls) = <<"super.midiMessage", 0, 0>>
         /\ BaseDispatched(status, data1, data2, before, Tail(calls))

\* C24: midiMessage looks at the high nibble of the status only. The base
\* one makes 0xB_ a ctrlChange(data1, data2) and 0xE_ a pitchWheel of
\* data2 * 128 + data1 and changes no parameter for any other status; the
\* poly one makes 0x8_, and 0x9_ with velocity 0, a keyOff(data1), 0x9_ with
\* another velocity a keyOn(data1, data2), and hands everything else to the
\* base one.
C24_DispatchOnHighNibble ==
    [][last'.op = "midiMessage" =>
         IF args.poly
         THEN PolyDispatched(last'.data[1], last'.data[2], last'.data[3],
                             Running, last'.calls)
         ELSE BaseDispatched(last'.data[1], last'.data[2], last'.data[3],
                             Running, last'.calls)]_vars

\* C24 witness: a poly instance whose voice played pitch 60 has got the
\* message 0x93 60 0, a note-on of velocity 0 on channel 3, and released it.
C24_ZeroVelocityNoteOnReleased ==
    /\ args.poly /\ voices = 1
    /\ last.op = "midiMessage"
    /\ last.calls = <<<<"keyOff", 60, 0>>>>
    /\ fVoiceTable[0].fCurNote = kReleaseVoice
    /\ fVoiceTable[0].fDate = 1

\* C31 as stated: over a slice the fRelease of a voice goes down by the slice
\* length if the voice was Releasing when the voices ran, and is left as it
\* was in any other state.
C31_OnlyReleasingCountedDown ==
    last.op = "compute" =>
       \A i \in 1 .. Len(last.slices) :
          \A v \in DOMAIN last.slices[i].before :
             last.slices[i].after[v].fRelease =
                IF last.slices[i].before[v].fCurNote = kReleaseVoice
                THEN last.slices[i].before[v].fRelease - last.slices[i].length
                ELSE last.slices[i].before[v].fRelease

\* C31 amended: over a slice the fRelease of every voice that is not Free
\* when the voices run (Active, Releasing or LegatoSteal) goes down by the
\* slice length, and the fRelease of a Free voice is left as it was.
C31_RunningVoicesCountedDown ==
    last.op = "compute" =>
       \A i \in 1 .. Len(last.slices) :
          \A v \in DOMAIN last.slices[i].before :
             last.slices[i].after[v].fRelease =
                IF last.slices[i].before[v].fCurNote # kFreeVoice
                THEN last.slices[i].before[v].fRelease - last.slices[i].length
                ELSE last.slices[i].before[v].fRelease

\* C31 witness: a compute rendered a slice of one sample or more in which
\* one voice was playing a note and another was Free: the fRelease of the
\* first went down by the length, that of the second stayed.
C31_ActiveCountedDownBesideFree ==
    /\ last.op = "compute"
    /\ \E i \in 1 .. Len(last.slices) :
          /\ last.slices[i].length > 0
          /\ \E v, w \in DOMAIN last.slices[i].before :
                /\ last.slices[i].before[v].fCurNote \in Pitches
                /\ last.slices[i].after[v].fRelease =
                      last.slices[i].before[v].fRelease - last.slices[i].length
                /\ last.slices[i].before[w].fCurNote = kFreeVoice
                /\ last.slices[i].after[w].fRelease =
                      last.slices[i].before[w].fRelease

\* The number of times the call occurs among calls.
Times(calls, call) == Cardinality({k \in 1 .. Len(calls) : calls[k] = call})

\* C32: in every slice of a compute that got past its checks, the kernel of
\* each voice that is not Free once the slice's event is applied is run
\* once over the slice length and mixed once, its mix right after its run,
\* and no kernel of a Free voice is run; clearOutput is the first call of
\* the callback and is not called again.
C32_RunningVoicesRunOnceClearedOnce ==
    (last.op = "compute" /\ last.processed) =>
       /\ last.calls # <<>>
       /\ last.calls[1] = <<"clearOutput", BufferSize, NumOutputs>>
       /\ \A k \in 2 .. Len(last.calls) : last.calls[k][1] # "clearOutput"
       /\ \A i \in 1 .. Len(last.slices) :
             /\ \A v \in DOMAIN last.slices[i].before :
                   /\ Times(last.slices[i].runs,
                            <<"compute", v, last.slices[i].length>>)
                      = IF last.slices[i].before[v].fCurNote # kFreeVoice
                        THEN 1 ELSE 0
                   /\ Times(last.slices[i].runs,
                            <<"mixCheckVoice", v, last.slices[i].length>>)
                      = IF last.slices[i].before[v].fCurNote # kFreeVoice
                        THEN 1 ELSE 0
             /\ \A k \in 1 .. Len(last.slices[i].runs) :
                   /\ last.slices[i].runs[k][2] \in DOMAIN last.slices[i].before
                   /\ last.slices[i].runs[k][3] = last.slices[i].length
                   /\ last.slices[i].runs[k][1] =
                         IF k % 2 = 1 THEN "compute" ELSE "mixCheckVoice"
                   /\ k % 2 = 0 =>
                         last.slices[i].runs[k][2] = last.slices[i].runs[k - 1][2]
       /\ Len(last.calls) =
             1 + SumSeq([i \in 1 .. Len(last.slices) |->
                           Len(last.slices[i].runs)])

\* C32 witness: a compute of two voices rendered two slices or more, one of
\* them with one voice run and the other voice Free, after a slice in which
\* no voice was run.
C32_OneVoiceRunBesideFreeInLaterSlice ==
    /\ last.op = "compute" /\ last.processed /\ voices = 2
    /\ \E i \in 2 .. Len(last.slices) :
          /\ last.slices[1].runs = <<>>
          /\ last.slices[i].length > 0
          /\ Len(last.slices[i].runs) = 2
          /\ \E v \in DOMAIN last.slices[i].before :
                last.slices[i].before[v].fCurNote = kFreeVoice

\* The steps named first all come before the steps named second.
Before(calls, first, second) ==
    \A j, k \in 1 .. Len(calls) :
       (calls[j][1] = first /\ calls[k][1] = second) => j < k

\* The order of a mono compute that got past its checks, but for the place
\* of the output poll: the copy of the input, the compute handler with
\* fBufferSize if one is set, one run of the kernel over fBufferSize samples.
UpToKernel(calls) ==
    /\ Before(calls, "dspInput.set", "fComputeHandler")
    /\ Before(calls, "dspInput.set", "api.compute")
    /\ Before(calls, "fComputeHandler", "api.compute")
    /\ Times(calls, <<"api.compute", fDSP, BufferSize>>) = 1
    /\ Times(calls, <<"fComputeHandler", BufferSize, 0>>)
          = IF fComputeHandler THEN 1 ELSE 0
    /\ Times(calls, <<"updateOutputs", 0, 0>>) = 1
    /\ Before(calls, "api.compute", "updateOutputs")
    /\ Before(calls, "api.compute", "output.set")
    /\ \A chan \in 0 .. (NumOutputs - 1) :
          Times(calls, <<"output.set", chan, BufferSize>>) = 1

\* C33 as stated: a processing mono compute copies the input, calls the
\* compute handler if set, runs the kernel once, copies the output to the
\* host and only then polls the outputs.
C33_PollAfterOutputCopy ==
    (last.op = "compute" /\ last.processed /\ last.result = "true") =>
       /\ UpToKernel(last.calls)
       /\ Before(last.calls, "output.set", "updateOutputs")

\* C33 amended: a processing mono compute copies the input, calls the
\* compute handler if set, runs the kernel once, polls the outputs and only
\* then copies the output to the host.
C33_PollBeforeOutputCopy ==
    (last.op = "compute" /\ last.processed /\ last.result = "true") =>
       /\ UpToKernel(last.calls)
       /\ Before(last.calls, "updateOutputs", "output.set")

\* C33 witness: a mono compute with an input channel and both handlers set
\* has made all five steps, and its poll pushed the bargraphs.
C33_AllStepsWithPush ==
    /\ last.op = "compute" /\ last.processed /\ last.result = "true"
    /\ voices = 0 /\ dspInputs = 1 /\ last.read = 1
    /\ fComputeHandler /\ fOutputHandler
    /\ Len(last.calls) = 4 + NumOutputs
    /\ last.handled = <<"fComputeHandler">> \o fOutputsItems

\* What a compute that stops at its checks leaves behind: no kernel, mixer
\* or handler called, no event drained or applied, nothing copied, and the
\* voices, the effect, the queue, the pointer tables and the output timer
\* as they were.
NothingDone ==
    /\ last'.slices = <<>> /\ last'.effect = <<>>
    /\ last'.handled = <<>> /\ last'.calls = <<>>
    /\ last'.drained = <<>> /\ last'.applied = <<>>
    /\ ~last'.processed /\ ~last'.copied /\ last'.read = 0
    /\ UNCHANGED <<fVoiceTable, effectParam, allocOrder, scheduledEvents,
                   outPtrTable, mixPtrTable, fOutputsTimer, sincePush,
                   fProcessing>>

\* C34: a compute on an instance that is not processing, before start or
\* after stop, does nothing and returns true (false once the instance has
\* been destroyed, the state of C12); an event scheduled while the instance
\* is not processing is put in its place by time and stays in the queue.
C34_IdleComputeDoesNothing ==
    [][/\ (~fProcessing /\ last'.op = "compute") =>
            /\ last'.result = IF fDestroyed THEN "false" ELSE "true"
            /\ NothingDone
       /\ (~fProcessing /\ last'.op = "scheduleEvent") =>
            /\ Len(scheduledEvents') = Len(scheduledEvents) + 1
            /\ Sorted(scheduledEvents) => Sorted(scheduledEvents')]_vars

\* C34 witness: an instance was started, played a voice, was stopped and
\* given a compute handler, got an event that is due and then a callback:
\* the voice still plays, its countdown untouched, and the event is queued.
C34_StoppedWithVoiceAndDueEvent ==
    /\ ~fProcessing /\ ~fDestroyed /\ fComputeHandler
    /\ last.op = "compute" /\ last.result = "true" /\ ~last.processed
    /\ \E v \in VoiceIds :
          /\ fVoiceTable[v].fCurNote \in Pitches
          /\ fVoiceTable[v].fRelease = NewVoice.fRelease - BufferSize
    /\ scheduledEvents # <<>>
    /\ scheduledEvents[1].time < currentTime

\* Voice v exists and is Releasing.
IsReleasing(v) ==
    IF v \in VoiceIds THEN fVoiceTable[v].fCurNote = kReleaseVoice ELSE FALSE

\* C35: on a processing instance whose callbacks keep coming and whose
\* mixer measures the voices below the threshold, a Releasing voice does
\* not stay Releasing: it becomes Free, or a keyOn steals it. Stated for the
\* callbacks the model follows: as long as one is still to come.
C35_ReleasingVoiceIsRetired ==
    \A v \in 0 .. (MaxVoices - 1) :
       (IsReleasing(v) /\ fProcessing /\ currentFrame < MaxFrames)
       ~> ~IsReleasing(v)

\* C35 witness: a voice released by a NOTE_OFF in the last sample of a
\* callback was still Releasing when that callback ended, its fRelease at 0,
\* and the next callback freed it.
C35_FreedOneCallbackLater ==
    /\ last.op = "compute" /\ last.processed /\ currentFrame = 2
    /\ last.drained = <<>>
    /\ \E v \in VoiceIds :
          /\ last.slices[1].before[v].fCurNote = kReleaseVoice
          /\ last.slices[1].before[v].fRelease = 0
          /\ fVoiceTable[v].fCurNote = kFreeVoice

\* The calls that have called addModule for the name and have not seen it
\* rejected: waiting for it, or past it with the node made.
Installing(name) ==
    {call \in Calls : /\ args[call].name = name
                      /\ ret.pc[call] \in {"addModule", "installed"}}

\* C36: whatever the interleaving of the createNode calls, no processor name
\* is installed by addModule a second time: at most one call per name has
\* called addModule without seeing it rejected.
C36_InstalledAtMostOnce ==
    \A name \in WorkletNames : Cardinality(Installing(name)) <= 1

\* The path is one of the effect's control tree and there is an effect.
OfEffect(path) == hasEffect /\ path = "/fx/level"

\* Voice v but for what it holds at the index of path.
Elsewhere(v, path) ==
    voiceSetParamValue(v, fPathTable[path], 0)

\* What setParamValue(path, value) must have done.
ParamWritten(path, value) ==
    IF OfEffect(path)
    THEN effectParam' = value /\ fVoiceTable' = fVoiceTable
    ELSE /\ effectParam' = effectParam
         /\ \A v \in VoiceIds :
               /\ voiceGetParamValue(fVoiceTable'[v], fPathTable[path]) = value
               /\ Elsewhere(fVoiceTable'[v], path)
                     = Elsewhere(fVoiceTable[v], path)

\* C37: in a poly instance setParamValue(path, value) with a path of the
\* voices writes the value to that parameter of every voice and to nothing
\* else, with a path of the effect writes it to the effect and to no voice,
\* and a getParamValue(path) that follows returns the value; the read of a
\* voice path is from voice 0, so it is stated for an instance with a voice.
C37_ParamWrittenToEveryVoice ==
    [][/\ last'.op = "setParamValue" =>
             ParamWritten(last'.data[1], last'.data[2])
       /\ (/\ last.op = "setParamValue" /\ last'.op = "getParamValue"
           /\ last'.data[1] = last.data[1]
           /\ (voices > 0 \/ OfEffect(last.data[1])))
          => (last'.result = "none" /\ last'.returned = last.data[2])]_vars

\* C37 witness: two voices, one playing with its gate at 1 and one Free
\* with its gate at 0, both hold 5 at the gate after setParamValue of the
\* gate's path, the effect is untouched, and getParamValue has returned 5.
C37_GatesOfBothVoicesSet ==
    /\ voices = 2 /\ hasEffect /\ effectParam = 0
    /\ last.op = "getParamValue" /\ last.data = <<"/synth/gate">>
    /\ last.returned = 5
    /\ fVoiceTable[0].fCurNote \in Pitches
    /\ fVoiceTable[1].fCurNote = kFreeVoice
    /\ \A v \in VoiceIds : fVoiceTable[v].gate[fPathTable["/synth/gate"]] = 5

\* The controller and the value of the ctrlChange that a call has run, by
\* itself or as the control change message it was given; -1 if none.
CtrlOf(o) ==
    IF o.op = "ctrlChange" THEN o.data[1]
    ELSE IF o.op = "midiMessage" /\ o.data[1] \div 16 = 11 THEN o.data[2]
    ELSE -1

CtrlValueOf(o) == IF o.op = "ctrlChange" THEN o.data[2] ELSE o.data[3]

\* Where a voice is in its life.
Lifecycle(v) == <<v.fCurNote, v.fNextNote, v.fNextVel, v.fDate, v.fRelease>>

\* Every voice is Free with its gates closed and nothing else of it
\* written, and the output handler was not called.
AllStoppedNothingMapped ==
    /\ last'.result = "none" /\ last'.handled = <<>>
    /\ effectParam' = effectParam
    /\ \A v \in VoiceIds :
          /\ fVoiceTable'[v].fCurNote = kFreeVoice
          /\ \A index \in DOMAIN fVoiceTable'[v].gate :
                fVoiceTable'[v].gate[index] = 0
          /\ fVoiceTable'[v].key = fVoiceTable[v].key
          /\ fVoiceTable'[v].gain = fVoiceTable[v].gain
          /\ fVoiceTable'[v].param = fVoiceTable[v].param

\* The control of leaf in voice v after the base's mapping of midi.
VoiceMapped(v, leaf, midi, value) ==
    IF Annotated(leaf, midi)
    THEN voiceGetParamValue(fVoiceTable'[v], leaf.index)
            = remap(Num(value), Num(0), Num(127), leaf.min, leaf.max)
    ELSE voiceGetParamValue(fVoiceTable'[v], leaf.index)
            = voiceGetParamValue(fVoiceTable[v], leaf.index)

\* No voice has moved in its life, and unless the output handler's read
\* threw every voice holds the mapped value in the controls bound to midi.
MappedByBase(midi, value) ==
    /\ \A v \in VoiceIds : Lifecycle(fVoiceTable'[v]) = Lifecycle(fVoiceTable[v])
    /\ last'.result = "none" =>
          \A v \in VoiceIds : \A i \in 1 .. Len(InputLeaves) :
             VoiceMapped(v, InputLeaves[i], midi, value)

\* C38: in a poly instance ctrlChange with controller 120 or 123 frees
\* every voice at once and maps no parameter, also when a control is bound
\* to that controller; with any other controller it is the base's mapping
\* to the bound controls and no voice moves between Free, Active,
\* Releasing and LegatoSteal nor changes its pending note, date or release.
C38_PanicControllersStopAllNotes ==
    [][(args.poly /\ CtrlOf(last') # -1) =>
         IF CtrlOf(last') \in {120, 123}
         THEN AllStoppedNothingMapped
         ELSE MappedByBase(Ctrl(CtrlOf(last')), CtrlValueOf(last'))]_vars

\* C38 witness: two voices, each allocated to a note, are both Free after
\* ctrlChange(0, 123, 64), and the control bound to controller 123 is at 0
\* in both.
C38_TwoNotesStoppedBy123 ==
    /\ args.poly /\ voices = 2
    /\ last.op = "ctrlChange" /\ last.data = <<123, 64>>
    /\ Len(Registry.fCtrlLabel[123]) > 0
    /\ \A v \in VoiceIds :
          /\ fVoiceTable[v].fDate > 0
          /\ fVoiceTable[v].fCurNote = kFreeVoice
          /\ fVoiceTable[v].gate[12] = 0

\* C39: a voice that is LegatoSteal stays LegatoSteal through every call
\* but allNotesOff: a compute that processes runs its kernel and mixes it
\* once as it does for an Active voice, counts its release budget down and
\* neither binds it to its pending note nor frees it; a keyOn that steals
\* it again leaves it LegatoSteal; a keyOff, of its pending pitch or of any
\* other, does not find it and leaves it as it was.
C39_LegatoVoiceStaysLegato ==
    [][\A v \in VoiceIds :
         fVoiceTable[v].fCurNote = kLegatoVoice =>
           /\ last'.op # "allNotesOff" =>
                 fVoiceTable'[v].fCurNote = kLegatoVoice
           /\ last'.op = "keyOff" => fVoiceTable'[v] = fVoiceTable[v]
           /\ (last'.op = "compute" /\ last'.processed) =>
                 /\ Times(last'.calls, <<"compute", v, BufferSize>>) = 1
                 /\ Times(last'.calls, <<"mixCheckVoice", v, BufferSize>>) = 1
                 /\ fVoiceTable'[v].fRelease
                       = fVoiceTable[v].fRelease - BufferSize
                 /\ fVoiceTable'[v].fNextNote = fVoiceTable[v].fNextNote]_vars

\* C39 witness: after the last callback, which has rendered it, voice 0 is
\* still LegatoSteal with the pitch of the stealing keyOn pending, and no
\* voice plays that pitch.
C39_StolenVoiceStillPendingAfterCompute ==
    /\ voices = 2 /\ currentFrame = MaxFrames
    /\ last.op = "compute" /\ last.processed
    /\ Times(last.calls, <<"compute", 0, BufferSize>>) = 1
    /\ fVoiceTable[0].fCurNote = kLegatoVoice
    /\ fVoiceTable[0].fNextNote = 64
    /\ fVoiceTable[1].fCurNote = 60

\* The samples rendered for a Releasing voice since its keyOff, as its
\* countdown has them: keyOff sets fRelease to getSampleRate() / 2.
SinceKeyOff(v) == HalfRate - v.fRelease

\* The voice table the kth slice of the callback found before its event.
Found(k) == IF k = 1 THEN fVoiceTable ELSE last'.slices[k - 1].after

\* Voice v over slice s of the callback, found being the voice as the slice
\* found it: if it is Releasing when the voices run, its count is 0 if the
\* slice's event has just released it and is what it was otherwise, its
\* kernel is run over the slice, which adds the slice length to the count,
\* and it is freed only with a count above getSampleRate() / 2; if it is
\* in another state the slice does not free it.
TailKept(found, s, v) ==
    IF s.before[v].fCurNote = kReleaseVoice
    THEN /\ SinceKeyOff(s.before[v]) =
               IF found.fCurNote = kReleaseVoice THEN SinceKeyOff(found) ELSE 0
         /\ Times(s.runs, <<"compute", v, s.length>>) = 1
         /\ SinceKeyOff(s.after[v]) = SinceKeyOff(s.before[v]) + s.length
         /\ s.after[v].fCurNote \in {kReleaseVoice, kFreeVoice}
         /\ s.after[v].fCurNote = kFreeVoice =>
               SinceKeyOff(s.after[v]) > HalfRate
    ELSE s.after[v].fCurNote = s.before[v].fCurNote

\* C40: a voice that a keyOff which is not hard has made Releasing is
\* freed by compute only once more than getSampleRate() / 2 samples have
\* been rendered for it since that keyOff, whatever slices the events cut
\* the callbacks into: the count starts at 0 with the keyOff, every slice
\* rendered while the voice is Releasing adds its length, nothing else
\* changes it within a callback or between callbacks, and the slice that
\* frees the voice leaves the count above getSampleRate() / 2.
C40_MinimumReleaseTail ==
    [][IF last'.op = "compute" /\ last'.processed
       THEN /\ \A k \in 1 .. Len(last'.slices) : \A v \in VoiceIds :
                  TailKept(Found(k)[v], last'.slices[k], v)
            /\ last'.result = "true" =>
                  fVoiceTable' = last'.slices[Len(last'.slices)].after
       ELSE \A v \in VoiceIds :
               (/\ fVoiceTable[v].fCurNote = kReleaseVoice
                /\ fVoiceTable'[v].fCurNote = kReleaseVoice)
                  => SinceKeyOff(fVoiceTable'[v]) = SinceKeyOff(fVoiceTable[v])]_vars

\* C40 witness: a callback cut in two slices of one sample by a NOTE_OFF.
\* The voice is Releasing in the first slice, which leaves it Releasing
\* with exactly getSampleRate() / 2 samples rendered, and the second slice
\* frees it.
C40_FreedInSliceAfterBudget ==
    /\ last.op = "compute" /\ last.processed /\ Len(last.slices) = 2
    /\ last.slices[1].length = 1 /\ last.slices[2].length = 1
    /\ \E v \in VoiceIds :
          /\ last.slices[1].before[v].fCurNote = kReleaseVoice
          /\ SinceKeyOff(last.slices[1].before[v]) = 0
          /\ last.slices[1].after[v].fCurNote = kReleaseVoice
          /\ SinceKeyOff(last.slices[1].after[v]) = HalfRate
          /\ last.slices[2].after[v].fCurNote = kFreeVoice
          /\ fVoiceTable[v].fCurNote = kFreeVoice

====
